---- MODULE Spec2Model ----
(***************************************************************************)
(* People counter of project-cctv: the DetectionModel's tracker and door   *)
(* crossing counters (app/models/detection_model.py), the people-in-room   *)
(* read-outs built on it, and the HealthMonitor of the video connection    *)
(* (app/services/video/health_monitor.py), the VideoCaptureManager's source  *)
(* classification (app/services/video/video_capture.py), the FrameProcessor *)
(* (app/services/video/frame_processor.py) and the VideoService with its    *)
(* background capture loop (app/services/video/video_service.py).           *)
(*                                                                         *)
(* Pixel coordinates are integers (boxes are cast with astype(int) and     *)
(* centres use //).  The float comparisons of the code are kept exact by   *)
(* clearing denominators: p <= x1 + 0.3*w is 10*p <= 10*x1 + 3*w, and      *)
(* p < (x1+x2)/2 is 2*p < x1+x2; sqrt(d2) < 50 is d2 < 50*50.              *)
(* The clock time.time() is counted in whole seconds.                      *)
(***************************************************************************)
EXTENDS Integers, Sequences, FiniteSets, TLC

VARIABLES
    previous_centers,   \* dict track id -> centre, as the sequence of its items in insertion order
    track_id,           \* next id to hand out
    left_to_right, right_to_left, top_to_bottom, bottom_to_top,
    door_defined, door_area, inside_direction,
    issued,             \* history: every id ever given to a new track
    issued_since_reset, \* history: the ids given to new tracks since the last reset_counters, in order
    last_successful_read, consecutive_failures, connection_healthy,
    now,                \* the clock read by time.time(), in seconds
    fail_streak,        \* history: update_on_failure calls since the last update_on_success
    ever_succeeded,     \* history: update_on_success has been called
    files,              \* the paths for which os.path.exists is true
    vs_video_path, vs_frame_rate, vs_resolution,    \* VideoService.video_path, .frame_rate, .resolution
    fp_frame_rate, fp_resolution,                   \* FrameProcessor.frame_rate, .resolution
    cm_video_path,      \* VideoCaptureManager.video_path
    cm_is_camera, cm_is_rtsp, cm_is_file,           \* VideoCaptureManager's source type flags
    vs_is_camera, vs_is_rtsp, vs_is_file,           \* VideoService.is_camera, .is_rtsp, .is_file
    cap,                \* the capture handle: "closed", "source" (open on video_path) or "default" (open on camera 0)
    managers_created,   \* history: VideoCaptureManager objects constructed after the first
    open_at_once,       \* history: the capture handles open together when a capture was last opened
    monitors_created,   \* history: HealthMonitor objects constructed after the first
    fp_last_processed_time,     \* FrameProcessor.last_processed_time
    pf_call,            \* history: the last process_frame call, its argument and what came back
    is_running,         \* VideoService.is_running
    vs_thread,          \* VideoService.thread: the thread it refers to, or NoThread
    join_pending,       \* the thread a stop_capture_thread in progress is joining, or NoThread
    threads_started,    \* history: threads created by start_capture_thread
    vs_returned,        \* history: what the last start_capture_thread / stop_capture_thread did
    loop_pc,            \* per thread: where its _capture_frames stands
    reconnect_backoff,  \* per thread: the local reconnect_backoff, in 1/128 s
    loop_sleep,         \* per thread: how long the sleep it is in lasts, in 1/128 s
    loop_last,          \* history, per thread: the branch its last iteration took
    current_frame,      \* VideoService.current_frame: None, or what the cached array holds
    source_ok,          \* environment: the source delivers frames
    in_flight,          \* per worker: the detect_people call it is inside, if any
    consumer_pc,        \* where the pull consumer stands in its generator
    consumer_frame,     \* the frame the consumer got from get_frame while it processes it
    raw_served,         \* history: what the raw feed served last
    stream_call,        \* history: the last pass of generate_frames / generate_raw_frames
    api_call            \* history: the last request at the settings boundary and its answer

tracker_vars == <<previous_centers, track_id, left_to_right, right_to_left,
                  top_to_bottom, bottom_to_top, door_defined, door_area,
                  inside_direction, issued, issued_since_reset>>
health_vars == <<last_successful_read, consecutive_failures, connection_healthy,
                 now, fail_streak, ever_succeeded>>
settings_vars == <<vs_video_path, vs_frame_rate, vs_resolution, fp_frame_rate, fp_resolution>>
capture_vars == <<files, cm_video_path, cm_is_camera, cm_is_rtsp, cm_is_file, cap,
                  vs_is_camera, vs_is_rtsp, vs_is_file,
                  managers_created, monitors_created, open_at_once>>
pipeline_vars == <<fp_last_processed_time, pf_call>>
thread_vars == <<is_running, vs_thread, join_pending, threads_started, vs_returned>>
loop_vars == <<loop_pc, reconnect_backoff, loop_sleep, loop_last>>
frame_vars == <<current_frame, source_ok, in_flight>>
consumer_vars == <<consumer_pc, consumer_frame, raw_served, stream_call>>
api_vars == <<api_call>>
service_vars == <<thread_vars, loop_vars, frame_vars, consumer_vars, api_vars>>
other_vars == <<settings_vars, capture_vars, pipeline_vars, service_vars>>
vars == <<tracker_vars, health_vars, other_vars>>

----------------------------------------------------------------------------
(* Bounds of the model *)

MaxBoxes == 2
MaxTrackId == 2
MaxCrossings == 2
MaxTime == 9
MaxFailures == 7
MaxManagers == 1
\* seconds of wall-clock time the frame pipeline is followed for
MaxPipelineTime == 3

(* Program constants *)

tracking_threshold == 50
max_reconnect_attempts == 5
timeout_threshold == 5

----------------------------------------------------------------------------
(* Inputs *)

NoneId == -1
NoDoor == <<>>

Centers == {<<110, 250>>, <<295, 250>>, <<325, 280>>}

\* a detection box [x1, y1, x2, y2] around a centre; the odd sides exercise the floor of //
BoxAround(c) == <<c[1] - 20, c[2] - 40, c[1] + 21, c[2] + 41>>

Boxes == {BoxAround(c) : c \in Centers}

\* the detections of one frame: non-maximum suppression leaves no box twice
Frames ==
    UNION {{f \in [1..n -> Boxes] : \A i, j \in 1..n : i # j => f[i] # f[j]} :
           n \in 0..MaxBoxes}

\* the default width, and two odd widths whose half falls between two pixels
FrameWidths == {640, 591, 651}

\* two vertical doors (200 and 40 wide) and a horizontal one
Doors == {<<100, 100, 300, 400>>, <<290, 100, 330, 400>>, <<200, 240, 400, 290>>}

Directions == {"left", "right", "up", "down"}

DirectionInputs == Directions \cup {"inside"}

----------------------------------------------------------------------------
(* DetectionModel: helpers *)

get_box_center(box) == <<(box[1] + box[3]) \div 2, (box[2] + box[4]) \div 2>>

SqDist(a, b) == (a[1] - b[1]) * (a[1] - b[1]) + (a[2] - b[2]) * (a[2] - b[2])

\* faulty variant: a track exactly tracking_threshold away is still accepted
CloserMatchInclusive(d, min_sq) ==
    /\ (min_sq = -1 \/ d < min_sq)
    /\ d <= tracking_threshold * tracking_threshold

\* dist < min_dist and dist < self.tracking_threshold ; min_sq = -1 stands for float('inf')
CloserMatch(d, min_sq) ==
    /\ (min_sq = -1 \/ d < min_sq)
    /\ d < tracking_threshold * tracking_threshold

RECURSIVE MatchLoop(_, _, _, _, _)
MatchLoop(prev, c, i, min_sq, matched_id) ==
    IF i > Len(prev) THEN matched_id
    ELSE LET d == SqDist(c, prev[i].center) IN
         IF CloserMatch(d, min_sq)
         THEN MatchLoop(prev, c, i + 1, d, prev[i].id)
         ELSE MatchLoop(prev, c, i + 1, min_sq, matched_id)

\* faulty variant: min_dist starts at 0 instead of float('inf')
MatchTrackFromZero(prev, c) == MatchLoop(prev, c, 1, 0, NoneId)

\* the "Try to match with previous centers" loop: the id matched, or NoneId
MatchTrack(prev, c) == MatchLoop(prev, c, 1, -1, NoneId)

HasKey(d, k) == \E i \in 1..Len(d) : d[i].id = k

DictGet(d, k) == d[CHOOSE i \in 1..Len(d) : d[i].id = k].center

\* d[k] = v on a Python dict: an existing key keeps its place
DictSet(d, k, v) ==
    IF HasKey(d, k)
    THEN [i \in 1..Len(d) |-> IF d[i].id = k THEN [id |-> k, center |-> v] ELSE d[i]]
    ELSE Append(d, [id |-> k, center |-> v])

NoCrossing == [crossed |-> FALSE, direction |-> "None"]
Crossing(dir) == [crossed |-> TRUE, direction |-> dir]

is_vertical_door(door) == (door[4] - door[2]) > (door[3] - door[1])

\* faulty variant: the two directions of the vertical zone test exchanged
VerticalZoneTestReversed(door, prev_center, current_center) ==
    LET x1 == door[1]  y1 == door[2]  x2 == door[3]  y2 == door[4]
        door_width == x2 - x1
        prev_x == prev_center[1]  prev_y == prev_center[2]
        curr_x == current_center[1]  curr_y == current_center[2]
    IN  IF (y1 <= prev_y /\ prev_y <= y2) \/ (y1 <= curr_y /\ curr_y <= y2)
        THEN IF 10 * prev_x <= 10 * x1 + 3 * door_width
                /\ 10 * curr_x >= 10 * x2 - 3 * door_width
             THEN Crossing("right_to_left")
             ELSE IF 10 * prev_x >= 10 * x2 - 3 * door_width
                     /\ 10 * curr_x <= 10 * x1 + 3 * door_width
                  THEN Crossing("left_to_right")
                  ELSE NoCrossing
        ELSE NoCrossing

\* the zone test of a vertical door (thresholds x1 + 0.3*w and x2 - 0.3*w)
VerticalZoneTest(door, prev_center, current_center) ==
    LET x1 == door[1]  y1 == door[2]  x2 == door[3]  y2 == door[4]
        door_width == x2 - x1
        prev_x == prev_center[1]  prev_y == prev_center[2]
        curr_x == current_center[1]  curr_y == current_center[2]
    IN  IF (y1 <= prev_y /\ prev_y <= y2) \/ (y1 <= curr_y /\ curr_y <= y2)
        THEN IF 10 * prev_x <= 10 * x1 + 3 * door_width
                /\ 10 * curr_x >= 10 * x2 - 3 * door_width
             THEN Crossing("left_to_right")
             ELSE IF 10 * prev_x >= 10 * x2 - 3 * door_width
                     /\ 10 * curr_x <= 10 * x1 + 3 * door_width
                  THEN Crossing("right_to_left")
                  ELSE NoCrossing
        ELSE NoCrossing

\* the zone test of a horizontal door (thresholds y1 + 0.3*h and y2 - 0.3*h)
HorizontalZoneTest(door, prev_center, current_center) ==
    LET x1 == door[1]  y1 == door[2]  x2 == door[3]  y2 == door[4]
        door_height == y2 - y1
        prev_x == prev_center[1]  prev_y == prev_center[2]
        curr_x == current_center[1]  curr_y == current_center[2]
    IN  IF (x1 <= prev_x /\ prev_x <= x2) \/ (x1 <= curr_x /\ curr_x <= x2)
        THEN IF 10 * prev_y <= 10 * y1 + 3 * door_height
                /\ 10 * curr_y >= 10 * y2 - 3 * door_height
             THEN Crossing("top_to_bottom")
             ELSE IF 10 * prev_y >= 10 * y2 - 3 * door_height
                     /\ 10 * curr_y <= 10 * y1 + 3 * door_height
                  THEN Crossing("bottom_to_top")
                  ELSE NoCrossing
        ELSE NoCrossing

\* faulty variant: the centre line of the other axis tried first
CenterLineFallbackVerticalFirst(door, prev_center, current_center) ==
    LET x1 == door[1]  y1 == door[2]  x2 == door[3]  y2 == door[4]
        prev_x == prev_center[1]  prev_y == prev_center[2]
        curr_x == current_center[1]  curr_y == current_center[2]
        inY == (y1 <= prev_y /\ prev_y <= y2) /\ (y1 <= curr_y /\ curr_y <= y2)
        inX == (x1 <= prev_x /\ prev_x <= x2) /\ (x1 <= curr_x /\ curr_x <= x2)
    IN  IF inX /\ 2 * prev_y < y1 + y2 /\ 2 * curr_y >= y1 + y2
        THEN Crossing("top_to_bottom")
        ELSE IF inX /\ 2 * prev_y >= y1 + y2 /\ 2 * curr_y < y1 + y2
        THEN Crossing("bottom_to_top")
        ELSE IF inY /\ 2 * prev_x < x1 + x2 /\ 2 * curr_x >= x1 + x2
        THEN Crossing("left_to_right")
        ELSE IF inY /\ 2 * prev_x >= x1 + x2 /\ 2 * curr_x < x1 + x2
        THEN Crossing("right_to_left")
        ELSE NoCrossing

\* "Fallback to center line detection for edge cases"
CenterLineFallback(door, prev_center, current_center) ==
    LET x1 == door[1]  y1 == door[2]  x2 == door[3]  y2 == door[4]
        prev_x == prev_center[1]  prev_y == prev_center[2]
        curr_x == current_center[1]  curr_y == current_center[2]
        inY == (y1 <= prev_y /\ prev_y <= y2) /\ (y1 <= curr_y /\ curr_y <= y2)
        inX == (x1 <= prev_x /\ prev_x <= x2) /\ (x1 <= curr_x /\ curr_x <= x2)
    IN  IF inY /\ 2 * prev_x < x1 + x2 /\ 2 * curr_x >= x1 + x2
        THEN Crossing("left_to_right")
        ELSE IF inY /\ 2 * prev_x >= x1 + x2 /\ 2 * curr_x < x1 + x2
        THEN Crossing("right_to_left")
        ELSE IF inX /\ 2 * prev_y < y1 + y2 /\ 2 * curr_y >= y1 + y2
        THEN Crossing("top_to_bottom")
        ELSE IF inX /\ 2 * prev_y >= y1 + y2 /\ 2 * curr_y < y1 + y2
        THEN Crossing("bottom_to_top")
        ELSE NoCrossing

is_crossing_door(prev_center, current_center) ==
    IF ~door_defined \/ door_area = NoDoor
    THEN NoCrossing
    ELSE LET zone == IF is_vertical_door(door_area)
                     THEN VerticalZoneTest(door_area, prev_center, current_center)
                     ELSE HorizontalZoneTest(door_area, prev_center, current_center)
         IN  IF zone.crossed THEN zone
             ELSE CenterLineFallback(door_area, prev_center, current_center)

\* faulty variant: the centre line taken one pixel further right
CenterLineCrossingShifted(prev_center, current_center, frame_width) ==
    LET center_line == frame_width \div 2 + 1
        prev_x == prev_center[1]
        center_x == current_center[1]
    IN  IF prev_x < center_line /\ center_x >= center_line
        THEN Crossing("left_to_right")
        ELSE IF prev_x >= center_line /\ center_x < center_line
        THEN Crossing("right_to_left")
        ELSE NoCrossing

\* the crossing of the fallback branch of track_movement (no door): the line frame_width // 2
CenterLineCrossing(prev_center, current_center, frame_width) ==
    LET center_line == frame_width \div 2
        prev_x == prev_center[1]
        center_x == current_center[1]
    IN  IF prev_x < center_line /\ center_x >= center_line
        THEN Crossing("left_to_right")
        ELSE IF prev_x >= center_line /\ center_x < center_line
        THEN Crossing("right_to_left")
        ELSE NoCrossing

----------------------------------------------------------------------------
(* DetectionModel.track_movement *)

\* self.<direction> += 1 and movement_count[direction] += 1 for one crossing
\* faulty variant: the crossing raises the cumulative counter and is left out
\* of movement_count
AddCrossingUnreported(acc, direction) ==
    IF direction = "left_to_right" THEN [acc EXCEPT !.left_to_right = @ + 1]
    ELSE IF direction = "right_to_left" THEN [acc EXCEPT !.right_to_left = @ + 1]
    ELSE IF direction = "top_to_bottom" THEN [acc EXCEPT !.top_to_bottom = @ + 1]
    ELSE IF direction = "bottom_to_top" THEN [acc EXCEPT !.bottom_to_top = @ + 1]
    ELSE acc

AddCrossing(acc, direction) ==
    LET counted ==
            IF direction = "left_to_right" THEN [acc EXCEPT !.left_to_right = @ + 1]
            ELSE IF direction = "right_to_left" THEN [acc EXCEPT !.right_to_left = @ + 1]
            ELSE IF direction = "top_to_bottom" THEN [acc EXCEPT !.top_to_bottom = @ + 1]
            ELSE IF direction = "bottom_to_top" THEN [acc EXCEPT !.bottom_to_top = @ + 1]
            ELSE acc
    IN  [counted EXCEPT !.movement_count[direction] = @ + 1]

\* which crossing test a matched track gets: the door's, or the centre line without a door
CrossingOf(prev_center, center, frame_width) ==
    IF door_defined
    THEN is_crossing_door(prev_center, center)
    ELSE CenterLineCrossing(prev_center, center, frame_width)

\* the body of "for box in current_boxes" (the same in both branches, up to the crossing test)
TrackBox(acc, box, frame_width) ==
    LET center == get_box_center(box)
        found == MatchTrack(previous_centers, center)
        matched_id == IF found = NoneId THEN acc.track_id ELSE found
        a1 == IF found = NoneId
              THEN [acc EXCEPT !.track_id = @ + 1, !.created = Append(@, matched_id)]
              ELSE acc
        a2 == [a1 EXCEPT !.current_centers = DictSet(@, matched_id, center)]
    IN  IF HasKey(previous_centers, matched_id)
        THEN LET c == CrossingOf(DictGet(previous_centers, matched_id), center, frame_width)
             IN  IF c.crossed THEN AddCrossing(a2, c.direction) ELSE a2
        ELSE a2

RECURSIVE TrackLoop(_, _, _, _)
TrackLoop(current_boxes, i, acc, frame_width) ==
    IF i > Len(current_boxes) THEN acc
    ELSE TrackLoop(current_boxes, i + 1, TrackBox(acc, current_boxes[i], frame_width), frame_width)

\* movement_count as each branch initialises it
InitialMovementCount ==
    IF door_defined
    THEN [left_to_right |-> 0, right_to_left |-> 0, top_to_bottom |-> 0, bottom_to_top |-> 0]
    ELSE [left_to_right |-> 0, right_to_left |-> 0]

\* faulty variant: current_centers starts from the tracks of the frame before, so
\* that a track without a detection stays alive
TrackResultKeepingTracks(current_boxes, frame_width) ==
    TrackLoop(current_boxes, 1,
              [current_centers |-> previous_centers, track_id |-> track_id, created |-> <<>>,
               left_to_right |-> left_to_right, right_to_left |-> right_to_left,
               top_to_bottom |-> top_to_bottom, bottom_to_top |-> bottom_to_top,
               movement_count |-> InitialMovementCount],
              frame_width)

\* the state track_movement ends in, and what it returns (movement_count)
TrackResult(current_boxes, frame_width) ==
    TrackLoop(current_boxes, 1,
              [current_centers |-> <<>>, track_id |-> track_id, created |-> <<>>,
               left_to_right |-> left_to_right, right_to_left |-> right_to_left,
               top_to_bottom |-> top_to_bottom, bottom_to_top |-> bottom_to_top,
               movement_count |-> InitialMovementCount],
              frame_width)

SeqRange(s) == {s[i] : i \in 1..Len(s)}

\* the writes of track_movement: self.previous_centers = current_centers at its
\* end, track_id and the counters as the loop over the boxes left them
commit_tracking(r) ==
    /\ r.track_id <= MaxTrackId
    /\ r.left_to_right + r.right_to_left + r.top_to_bottom + r.bottom_to_top <= MaxCrossings
    /\ previous_centers' = r.current_centers
    /\ track_id' = r.track_id
    /\ left_to_right' = r.left_to_right
    /\ right_to_left' = r.right_to_left
    /\ top_to_bottom' = r.top_to_bottom
    /\ bottom_to_top' = r.bottom_to_top
    /\ issued' = issued \cup SeqRange(r.created)
    /\ issued_since_reset' = issued_since_reset \o r.created
    /\ UNCHANGED <<door_defined, door_area, inside_direction>>

track_movement(current_boxes, frame_width) ==
    \E r \in {TrackResult(current_boxes, frame_width)} : commit_tracking(r)

\* image.shape[1] of the frames; the door branch of track_movement never reads
\* frame_width, so with a door one width stands for all
WidthsRead == IF door_defined THEN {640} ELSE FrameWidths

TrackMovement ==
    /\ \E current_boxes \in Frames, frame_width \in WidthsRead :
            track_movement(current_boxes, frame_width)
    /\ UNCHANGED <<health_vars, other_vars>>

\* people close to each other in front of the door <<100, 100, 300, 400>>: the
\* first stands left of its centre line and above its centre, the second and the
\* third less than tracking_threshold from the first, the fourth exactly
\* tracking_threshold from it
NearbyCenters == {<<190, 240>>, <<225, 215>>, <<225, 265>>, <<240, 240>>}

NearbyBoxes == {BoxAround(c) : c \in NearbyCenters}

\* the area two boxes share, and torchvision's box_iou(a, b) <= iou_threshold (0.3)
Intersection(a, b) ==
    LET left == IF a[1] >= b[1] THEN a[1] ELSE b[1]
        top == IF a[2] >= b[2] THEN a[2] ELSE b[2]
        right == IF a[3] <= b[3] THEN a[3] ELSE b[3]
        bottom == IF a[4] <= b[4] THEN a[4] ELSE b[4]
    IN  IF right > left /\ bottom > top THEN (right - left) * (bottom - top) ELSE 0

BoxArea(a) == (a[3] - a[1]) * (a[4] - a[2])

KeptByNms(a, b) ==
    10 * Intersection(a, b) <= 3 * (BoxArea(a) + BoxArea(b) - Intersection(a, b))

\* the detections of one frame of that scene, as ops.nms leaves them: nobody,
\* one of these people, or two of them in either order
NearbyFrames ==
    {<<>>} \cup {<<a>> : a \in NearbyBoxes}
           \cup {<<a, b>> : <<a, b>> \in {pair \in NearbyBoxes \X NearbyBoxes :
                                            /\ pair[1] # pair[2]
                                            /\ KeptByNms(pair[1], pair[2])}}

TrackNearby ==
    /\ \E current_boxes \in NearbyFrames : track_movement(current_boxes, 640)
    /\ UNCHANGED <<health_vars, other_vars>>

----------------------------------------------------------------------------
(* DetectionModel: configuration, reset, read-outs *)

\* faulty variant: the door redefinition restarts the track numbering as reset_counters does
set_door_area_renumbering(x1, y1, x2, y2) ==
    /\ door_area' = <<x1, y1, x2, y2>>
    /\ door_defined' = TRUE
    /\ left_to_right' = 0
    /\ right_to_left' = 0
    /\ previous_centers' = <<>>
    /\ track_id' = 0
    /\ UNCHANGED <<top_to_bottom, bottom_to_top, inside_direction,
                   issued, issued_since_reset>>

set_door_area(x1, y1, x2, y2) ==
    /\ door_area' = <<x1, y1, x2, y2>>
    /\ door_defined' = TRUE
    /\ left_to_right' = 0
    /\ right_to_left' = 0
    /\ previous_centers' = <<>>
    /\ UNCHANGED <<track_id, top_to_bottom, bottom_to_top, inside_direction,
                   issued, issued_since_reset>>

SetDoorArea ==
    /\ \E door \in Doors : set_door_area(door[1], door[2], door[3], door[4])
    /\ UNCHANGED <<health_vars, other_vars>>

\* faulty variant: changing the inside direction clears the horizontal counters
set_inside_direction_clearing(direction) ==
    /\ inside_direction' = IF direction \in Directions THEN direction ELSE inside_direction
    /\ left_to_right' = 0
    /\ right_to_left' = 0
    /\ UNCHANGED <<previous_centers, track_id, top_to_bottom, bottom_to_top,
                   door_defined, door_area, issued, issued_since_reset>>

\* faulty variant: the direction is stored without the membership test
set_inside_direction_unvalidated(direction) ==
    /\ inside_direction' = direction
    /\ UNCHANGED <<previous_centers, track_id, left_to_right, right_to_left,
                   top_to_bottom, bottom_to_top, door_defined, door_area,
                   issued, issued_since_reset>>

\* what set_inside_direction returns
set_inside_direction_returns(direction) == direction \in Directions

set_inside_direction(direction) ==
    /\ inside_direction' = IF direction \in Directions THEN direction ELSE inside_direction
    /\ UNCHANGED <<previous_centers, track_id, left_to_right, right_to_left,
                   top_to_bottom, bottom_to_top, door_defined, door_area,
                   issued, issued_since_reset>>

SetInsideDirection ==
    /\ \E direction \in DirectionInputs : set_inside_direction(direction)
    /\ UNCHANGED <<health_vars, other_vars>>

\* faulty variant: the numbering restarts while the tracks of the last frame stay
reset_counters_keeping_tracks ==
    /\ left_to_right' = 0
    /\ right_to_left' = 0
    /\ track_id' = 0
    /\ issued_since_reset' = <<>>
    /\ UNCHANGED <<previous_centers, top_to_bottom, bottom_to_top, door_defined, door_area,
                   inside_direction, issued>>

reset_counters ==
    /\ left_to_right' = 0
    /\ right_to_left' = 0
    /\ previous_centers' = <<>>
    /\ track_id' = 0
    /\ issued_since_reset' = <<>>
    /\ UNCHANGED <<top_to_bottom, bottom_to_top, door_defined, door_area,
                   inside_direction, issued>>

ResetCounters ==
    /\ reset_counters
    /\ UNCHANGED <<health_vars, other_vars>>

\* faulty variant: up and down mapped the wrong way round
get_entry_exit_count_flipped ==
    IF inside_direction = "right" THEN <<left_to_right, right_to_left>>
    ELSE IF inside_direction = "left" THEN <<right_to_left, left_to_right>>
    ELSE IF inside_direction = "down" THEN <<bottom_to_top, top_to_bottom>>
    ELSE IF inside_direction = "up" THEN <<top_to_bottom, bottom_to_top>>
    ELSE <<left_to_right, right_to_left>>

get_entry_exit_count ==
    IF inside_direction = "right" THEN <<left_to_right, right_to_left>>
    ELSE IF inside_direction = "left" THEN <<right_to_left, left_to_right>>
    ELSE IF inside_direction = "down" THEN <<top_to_bottom, bottom_to_top>>
    ELSE IF inside_direction = "up" THEN <<bottom_to_top, top_to_bottom>>
    ELSE <<left_to_right, right_to_left>>

\* faulty variant: the difference without the clamp at 0
MaxUnclamped(a, b) == b

\* Python's max(a, b)
Max(a, b) == IF b > a THEN b ELSE a

\* FrameProcessor.get_people_count
get_people_count ==
    LET entries == get_entry_exit_count[1]
        exits == get_entry_exit_count[2]
    IN  Max(0, entries - exits)

\* the body of the GET /counter response
get_counter ==
    LET entries == get_entry_exit_count[1]
        exits == get_entry_exit_count[2]
        people_in_room == Max(0, entries - exits)
    IN  [entries |-> entries, exits |-> exits, people_in_room |-> people_in_room,
         door_defined |-> door_defined]

\* the counter part of the 'counter_update' event
emit_counter_update ==
    LET entries == get_entry_exit_count[1]
        exits == get_entry_exit_count[2]
        people_in_room == Max(0, entries - exits)
    IN  [people_in_room |-> people_in_room, entries |-> entries, exits |-> exits]

----------------------------------------------------------------------------
(* HealthMonitor *)

update_on_success ==
    /\ consecutive_failures' = 0
    /\ connection_healthy' = TRUE
    /\ last_successful_read' = now
    /\ fail_streak' = 0
    /\ ever_succeeded' = TRUE
    /\ UNCHANGED now

update_on_failure ==
    /\ fail_streak < MaxFailures
    /\ consecutive_failures' = consecutive_failures + 1
    /\ connection_healthy' = FALSE
    /\ fail_streak' = fail_streak + 1
    /\ UNCHANGED <<last_successful_read, now, ever_succeeded>>

\* faulty variant: the timeout does not ask for an earlier success
connection_timeout_unconditional ==
    LET time_since_last_read == now - last_successful_read
    IN  time_since_last_read > timeout_threshold

connection_timeout ==
    LET time_since_last_read == now - last_successful_read
    IN  time_since_last_read > timeout_threshold /\ last_successful_read > 0

SourceType(is_camera, is_rtsp, is_file) ==
    IF is_camera THEN "camera"
    ELSE IF is_rtsp THEN "rtsp"
    ELSE IF is_file THEN "file"
    ELSE "unknown"

check_health(is_camera, is_rtsp, is_file) ==
    /\ connection_healthy' = IF connection_timeout /\ connection_healthy
                             THEN FALSE ELSE connection_healthy
    /\ UNCHANGED <<last_successful_read, consecutive_failures, now,
                   fail_streak, ever_succeeded>>

\* the dict check_health returns
health_info(is_camera, is_rtsp, is_file) ==
    [healthy |-> IF connection_timeout /\ connection_healthy THEN FALSE ELSE connection_healthy,
     source_type |-> SourceType(is_camera, is_rtsp, is_file),
     consecutive_failures |-> consecutive_failures,
     last_successful_read |-> last_successful_read,
     time_since_last_read |-> now - last_successful_read]

should_reconnect == ~connection_healthy /\ consecutive_failures > 0

\* faulty variant: the ceiling has to be passed, not reached
exceeded_max_attempts_strict == consecutive_failures > max_reconnect_attempts

exceeded_max_attempts == consecutive_failures >= max_reconnect_attempts

\* VideoService._capture_frames, reconnect branch: past the ceiling the loop
\* writes health_monitor.consecutive_failures = 0 (both arms of the fallback test)
reset_consecutive_failures ==
    /\ should_reconnect
    /\ exceeded_max_attempts
    /\ consecutive_failures' = 0
    /\ UNCHANGED <<last_successful_read, connection_healthy, now,
                   fail_streak, ever_succeeded>>

\* time passes between calls
Tick ==
    /\ now < MaxTime
    /\ now' = now + 1
    /\ UNCHANGED <<last_successful_read, consecutive_failures, connection_healthy,
                   fail_streak, ever_succeeded>>

UpdateOnSuccess == update_on_success
    /\ UNCHANGED <<tracker_vars, other_vars>>
UpdateOnFailure == update_on_failure
    /\ UNCHANGED <<tracker_vars, other_vars>>
CheckHealth ==
    /\ \E is_camera \in BOOLEAN, is_rtsp \in BOOLEAN, is_file \in BOOLEAN :
            check_health(is_camera, is_rtsp, is_file)
    /\ UNCHANGED <<tracker_vars, other_vars>>
ResetConsecutiveFailures == reset_consecutive_failures
    /\ UNCHANGED <<tracker_vars, other_vars>>
TimePasses == Tick
    /\ UNCHANGED <<tracker_vars, other_vars>>

----------------------------------------------------------------------------
(* VideoCaptureManager: source classification and opening *)

\* a video_path: an int, or a str given as the sequence of its characters
IntPath(n) == [type |-> "int", value |-> n]
StrPath(chars) == [type |-> "str", value |-> chars]

Camera0 == IntPath(0)
Digit0 == StrPath(<<"0">>)
Digits12 == StrPath(<<"1", "2">>)
EmptyPath == StrPath(<<>>)
RtspUrl == StrPath(<<"r", "t", "s", "p", ":", "/", "/", "h">>)
RtspUpperUrl == StrPath(<<"R", "T", "S", "P", ":", "/", "/", "h">>)
RtmpUrl == StrPath(<<"r", "t", "m", "p", ":", "/", "/", "h">>)
DemoPath == StrPath(<<"d", ".", "m", "p", "4">>)
UnknownPath == StrPath(<<"x">>)

VideoPaths == {Camera0, Digit0, Digits12, EmptyPath, RtspUrl, RtspUpperUrl, RtmpUrl,
               DemoPath, UnknownPath}

\* the paths that may exist on disk (a name made of digits and one that looks like a URL among them)
FilePaths == {DemoPath, Digits12, RtspUrl}

DigitChars == {"0", "1", "2", "3", "4", "5", "6", "7", "8", "9"}

\* str.isdigit()
isdigit(chars) == Len(chars) > 0 /\ \A i \in 1..Len(chars) : chars[i] \in DigitChars

LowerChar(ch) ==
    CASE ch = "R" -> "r"
      [] ch = "T" -> "t"
      [] ch = "S" -> "s"
      [] ch = "P" -> "p"
      [] ch = "M" -> "m"
      [] OTHER -> ch

\* str.lower()
lower(chars) == [i \in 1..Len(chars) |-> LowerChar(chars[i])]

\* str.startswith(prefix)
startswith(chars, prefix) ==
    Len(chars) >= Len(prefix) /\ SubSeq(chars, 1, Len(prefix)) = prefix

StreamSchemes == {<<"r", "t", "s", "p", ":", "/", "/">>, <<"r", "t", "m", "p", ":", "/", "/">>}

is_stream_url(video_path) ==
    /\ video_path.type = "str"
    /\ \E scheme \in StreamSchemes : startswith(lower(video_path.value), scheme)

\* os.path.exists
exists(video_path) == video_path \in files

DigitValue(ch) ==
    CASE ch = "0" -> 0 [] ch = "1" -> 1 [] ch = "2" -> 2 [] ch = "3" -> 3 [] ch = "4" -> 4
      [] ch = "5" -> 5 [] ch = "6" -> 6 [] ch = "7" -> 7 [] ch = "8" -> 8 [] OTHER -> 9

\* int(str) of a string of digits
RECURSIVE ParseInt(_)
ParseInt(chars) ==
    IF chars = <<>> THEN 0
    ELSE 10 * ParseInt(SubSeq(chars, 1, Len(chars) - 1)) + DigitValue(chars[Len(chars)])

CameraFlags == [is_camera |-> TRUE, is_file |-> FALSE, is_rtsp |-> FALSE]
RtspFlags == [is_camera |-> FALSE, is_file |-> FALSE, is_rtsp |-> TRUE]
FileFlags == [is_camera |-> FALSE, is_file |-> TRUE, is_rtsp |-> FALSE]

\* faulty variant: the file test made before the scheme test
determine_source_type_file_first(video_path) ==
    IF video_path.type = "int" \/ (video_path.type = "str" /\ isdigit(video_path.value))
    THEN CameraFlags
    ELSE IF video_path.type = "str" /\ exists(video_path)
    THEN FileFlags
    ELSE IF is_stream_url(video_path)
    THEN RtspFlags
    ELSE CameraFlags

\* VideoCaptureManager._determine_source_type: the three flags it sets
determine_source_type(video_path) ==
    IF video_path.type = "int" \/ (video_path.type = "str" /\ isdigit(video_path.value))
    THEN CameraFlags
    ELSE IF is_stream_url(video_path)
    THEN RtspFlags
    ELSE IF video_path.type = "str" /\ exists(video_path)
    THEN FileFlags
    ELSE CameraFlags

\* VideoCaptureManager._initialize_capture on a manager with the given path and
\* flags; opened: cv2 opens the source, default_opened: cv2 opens camera 0
initialize_capture(video_path, flags, opened, default_opened) ==
    LET path == IF video_path.type = "str" /\ isdigit(video_path.value)
                THEN IntPath(ParseInt(video_path.value))
                ELSE video_path
        tried == IF path.type = "int" THEN [flags EXCEPT !.is_camera = TRUE]
                 ELSE IF is_stream_url(path) THEN [flags EXCEPT !.is_rtsp = TRUE]
                 ELSE IF exists(path) THEN [flags EXCEPT !.is_file = TRUE]
                 ELSE flags
    IN  IF opened
        THEN [video_path |-> path, flags |-> tried, cap |-> "source"]
        ELSE IF path # Camera0
        THEN [video_path |-> path, flags |-> CameraFlags,
              cap |-> IF default_opened THEN "default" ELSE "closed"]
        ELSE [video_path |-> path, flags |-> tried, cap |-> "closed"]

\* VideoCaptureManager.__init__
new_capture_manager(video_path, opened, default_opened) ==
    initialize_capture(video_path, determine_source_type(video_path), opened, default_opened)

\* the fields of self.capture_manager become those of the manager m
install_capture_manager(m) ==
    /\ cm_video_path' = m.video_path
    /\ cm_is_camera' = m.flags.is_camera
    /\ cm_is_rtsp' = m.flags.is_rtsp
    /\ cm_is_file' = m.flags.is_file
    /\ cap' = m.cap

\* a capture as a number of open handles
Opened(c) == IF c = "closed" THEN 0 ELSE 1

\* the handles open once reopen has opened the capture of m: the one before was
\* released first ("if self.cap: self.cap.release()")
handles_after_reopen(m) == Opened(m.cap)

\* the handles open once a new VideoCaptureManager has opened the capture of
\* m, the service holding the capture old: nothing releases old before
handles_after_construction(old, m) == Opened(old) + Opened(m.cap)

\* self.is_file, self.is_rtsp, self.is_camera of the service: copied from a
\* manager the service has just constructed, left alone otherwise
link_capture_manager(m, constructed) ==
    /\ vs_is_file' = IF constructed THEN m.flags.is_file ELSE vs_is_file
    /\ vs_is_rtsp' = IF constructed THEN m.flags.is_rtsp ELSE vs_is_rtsp
    /\ vs_is_camera' = IF constructed THEN m.flags.is_camera ELSE vs_is_camera

\* a file appears on disk or disappears
CreateFile ==
    /\ \E video_path \in FilePaths \ files : files' = files \cup {video_path}
    /\ UNCHANGED <<cm_video_path, cm_is_camera, cm_is_rtsp, cm_is_file, cap,
                   vs_is_camera, vs_is_rtsp, vs_is_file,
                   managers_created, monitors_created, open_at_once>>
    /\ UNCHANGED <<tracker_vars, health_vars, settings_vars, pipeline_vars, service_vars>>

RemoveFile ==
    /\ \E video_path \in files : files' = files \ {video_path}
    /\ UNCHANGED <<cm_video_path, cm_is_camera, cm_is_rtsp, cm_is_file, cap,
                   vs_is_camera, vs_is_rtsp, vs_is_file,
                   managers_created, monitors_created, open_at_once>>
    /\ UNCHANGED <<tracker_vars, health_vars, settings_vars, pipeline_vars, service_vars>>

----------------------------------------------------------------------------
(* VideoService.update_settings *)

\* an optional argument: <<>> for None, <<v>> for the value v
None == <<>>
Some(v) == <<v>>

FrameRates == {30, 15}
\* a resolution cv2.resize rejects among them
Resolutions == {<<640, 480>>, <<591, 480>>, <<0, 0>>}

OptionOf(S) == {None} \cup {Some(v) : v \in S}

\* self.capture_manager and self.health_monitor as values
current_capture_manager ==
    [video_path |-> cm_video_path,
     flags |-> [is_camera |-> cm_is_camera, is_file |-> cm_is_file, is_rtsp |-> cm_is_rtsp],
     cap |-> cap]

current_health_monitor ==
    [last_successful_read |-> last_successful_read,
     consecutive_failures |-> consecutive_failures,
     connection_healthy |-> connection_healthy]

\* HealthMonitor()
new_health_monitor ==
    [last_successful_read |-> 0, consecutive_failures |-> 0, connection_healthy |-> TRUE]

\* self.health_monitor becomes the monitor h, constructed in this step or kept
install_health_monitor(h, constructed) ==
    /\ last_successful_read' = h.last_successful_read
    /\ consecutive_failures' = h.consecutive_failures
    /\ connection_healthy' = h.connection_healthy
    /\ fail_streak' = IF constructed THEN 0 ELSE fail_streak
    /\ ever_succeeded' = IF constructed THEN FALSE ELSE ever_succeeded
    /\ UNCHANGED now

\* faulty variant: every given video_path restarts the capture
update_settings_always_restarting(video_path, frame_rate, resolution, opened, default_opened) ==
    LET restart_capture == video_path # None
        new_path == IF restart_capture THEN video_path[1] ELSE vs_video_path
    IN  [restart_capture |-> restart_capture,
         video_path |-> new_path,
         frame_rate |-> IF frame_rate # None THEN frame_rate[1] ELSE vs_frame_rate,
         fp_frame_rate |-> IF frame_rate # None THEN frame_rate[1] ELSE fp_frame_rate,
         resolution |-> IF resolution # None THEN resolution[1] ELSE vs_resolution,
         fp_resolution |-> IF resolution # None THEN resolution[1] ELSE fp_resolution,
         capture_manager |-> IF restart_capture
                             THEN new_capture_manager(new_path, opened, default_opened)
                             ELSE current_capture_manager,
         health_monitor |-> IF restart_capture THEN new_health_monitor
                            ELSE current_health_monitor]

\* VideoService.update_settings: the fields of the service when it returns;
\* opened, default_opened: what cv2 does if the capture is reinitialized
update_settings_result(video_path, frame_rate, resolution, opened, default_opened) ==
    LET restart_capture == video_path # None /\ video_path[1] # vs_video_path
        new_path == IF restart_capture THEN video_path[1] ELSE vs_video_path
    IN  [restart_capture |-> restart_capture,
         video_path |-> new_path,
         frame_rate |-> IF frame_rate # None THEN frame_rate[1] ELSE vs_frame_rate,
         fp_frame_rate |-> IF frame_rate # None THEN frame_rate[1] ELSE fp_frame_rate,
         resolution |-> IF resolution # None THEN resolution[1] ELSE vs_resolution,
         fp_resolution |-> IF resolution # None THEN resolution[1] ELSE fp_resolution,
         capture_manager |-> IF restart_capture
                             THEN new_capture_manager(new_path, opened, default_opened)
                             ELSE current_capture_manager,
         health_monitor |-> IF restart_capture THEN new_health_monitor
                            ELSE current_health_monitor]

update_settings(video_path, frame_rate, resolution, opened, default_opened) ==
    \E r \in {update_settings_result(video_path, frame_rate, resolution, opened, default_opened)} :
        /\ r.restart_capture => managers_created < MaxManagers
        /\ vs_video_path' = r.video_path
        /\ vs_frame_rate' = r.frame_rate
        /\ fp_frame_rate' = r.fp_frame_rate
        /\ vs_resolution' = r.resolution
        /\ fp_resolution' = r.fp_resolution
        /\ install_capture_manager(r.capture_manager)
        /\ link_capture_manager(r.capture_manager, r.restart_capture)
        /\ install_health_monitor(r.health_monitor, r.restart_capture)
        /\ managers_created' = managers_created + (IF r.restart_capture THEN 1 ELSE 0)
        /\ open_at_once' = IF r.restart_capture
                           THEN handles_after_construction(cap, r.capture_manager)
                           ELSE open_at_once
        /\ monitors_created' = monitors_created + (IF r.restart_capture THEN 1 ELSE 0)
        /\ UNCHANGED files

\* the paths submitted to update_settings
SubmittedPaths == {Camera0, Digit0, Digits12, RtspUrl, DemoPath}

\* what cv2 may do when a capture is opened; nothing is opened when nothing is reinitialized
OpenOutcomes(reinitialized) == IF reinitialized THEN BOOLEAN ELSE {FALSE}

UpdateSettings ==
    /\ \E video_path \in OptionOf(SubmittedPaths), frame_rate \in OptionOf(FrameRates),
          resolution \in OptionOf(Resolutions) :
        \E opened \in OpenOutcomes(video_path \notin {None, Some(vs_video_path)}) :
        \E default_opened \in OpenOutcomes(video_path \notin {None, Some(vs_video_path)} /\ ~opened) :
            update_settings(video_path, frame_rate, resolution, opened, default_opened)
    /\ UNCHANGED <<tracker_vars, pipeline_vars, service_vars>>

----------------------------------------------------------------------------
(* FrameProcessor.process_frame *)

\* the frame argument: None, an array the detector cannot take (empty or
\* malformed), or an image
FrameInputs == {"None", "malformed", "image"}

\* where an exception arises inside the try block: nowhere, in detect_people
\* before track_movement, in detect_people after track_movement, or in the
\* drawing of the overlay after the first annotations
Faults == {"none", "detector", "after_tracking", "overlay"}

\* faulty variant: the elapsed time taken from the start of the clock and not
\* from the last processed frame
ahead_of_schedule_since_start == now * fp_frame_rate < 1

\* the cadence gate: current_time - last_processed_time < 1.0 / frame_rate
ahead_of_schedule == (now - fp_last_processed_time) * fp_frame_rate < 1

\* the try block of process_frame
process_frame_body(frame, fault) ==
    IF ahead_of_schedule
    THEN [exception |-> FALSE, tracked |-> FALSE,
          drawn |-> IF frame = "image" THEN "timestamp" ELSE "nothing",
          last_processed_time |-> fp_last_processed_time]
    ELSE IF frame = "malformed" \/ fault = "detector"
    THEN [exception |-> TRUE, tracked |-> FALSE, drawn |-> "nothing",
          last_processed_time |-> fp_last_processed_time]
    ELSE IF fault = "after_tracking"
    THEN [exception |-> TRUE, tracked |-> TRUE, drawn |-> "nothing",
          last_processed_time |-> fp_last_processed_time]
    ELSE IF fault = "overlay"
    THEN [exception |-> TRUE, tracked |-> TRUE, drawn |-> "partly",
          last_processed_time |-> now]
    ELSE [exception |-> FALSE, tracked |-> TRUE, drawn |-> "annotated",
          last_processed_time |-> now]

\* faulty variant: the exception is logged and raised again
handle_processing_error_reraising(body) ==
    [returned |-> "nothing", raised |-> TRUE, failed |-> TRUE, tracked |-> body.tracked, drawn |-> body.drawn,
     last_processed_time |-> body.last_processed_time]

\* except Exception: log and return frame
handle_processing_error(body) ==
    [returned |-> "frame", raised |-> FALSE, failed |-> TRUE, tracked |-> body.tracked,
     drawn |-> body.drawn, last_processed_time |-> body.last_processed_time]

\* FrameProcessor.process_frame: what it returns and leaves behind
process_frame_result(frame, fault) ==
    IF frame = "None"
    THEN [returned |-> "None", raised |-> FALSE, failed |-> FALSE, tracked |-> FALSE,
          drawn |-> "nothing",
          last_processed_time |-> fp_last_processed_time]
    ELSE LET body == process_frame_body(frame, fault)
         IN  IF body.exception
             THEN handle_processing_error(body)
             ELSE [returned |-> "frame", raised |-> FALSE, failed |-> FALSE,
                   tracked |-> body.tracked, drawn |-> body.drawn,
                   last_processed_time |-> body.last_processed_time]

\* process_frame as one step; current_boxes: what the detector finds in the frame
process_frame(frame, fault, current_boxes) ==
    \E r \in {process_frame_result(frame, fault)} :
        /\ IF r.tracked
           THEN track_movement(current_boxes, fp_resolution[1])
           ELSE UNCHANGED tracker_vars
        /\ fp_last_processed_time' = r.last_processed_time
        /\ pf_call' = [frame |-> frame, fault |-> fault, returned |-> r.returned,
                       raised |-> r.raised, failed |-> r.failed, drawn |-> r.drawn]

\* what the detector finds: the pipeline is followed with at most one person
\* in view, and nothing is found in a frame that never reaches track_movement
BoxesFound(frame, fault) ==
    IF process_frame_result(frame, fault).tracked
    THEN {current_boxes \in Frames : Len(current_boxes) <= 1}
    ELSE {<<>>}

ProcessFrame ==
    /\ \E frame \in FrameInputs, fault \in Faults :
        \E current_boxes \in BoxesFound(frame, fault) :
            process_frame(frame, fault, current_boxes)
    /\ UNCHANGED <<health_vars, settings_vars, capture_vars, service_vars>>

PipelineTimePasses ==
    /\ now < MaxPipelineTime
    /\ Tick
    /\ UNCHANGED <<tracker_vars, other_vars>>

----------------------------------------------------------------------------
(* FrameProcessor.process_frame entered by several threads *)

NoThread == 0
\* the capture threads followed: the one initialize_services starts and one more
Threads == {1, 2}

\* the request thread of a pull consumer, and every thread that may be inside process_frame
Consumer == 0
Workers == {Consumer} \cup Threads

NotInFlight == <<>>

\* process_frame up to the reads of track_movement: a call the cadence gate or
\* an early failure keeps out of the tracker is over at once; the others have
\* read the tracker and stand before its writes
begin_process_frame(w, frame, fault, current_boxes) ==
    \E r \in {process_frame_result(frame, fault)} :
        IF r.tracked
        THEN /\ in_flight[w] = NotInFlight
             /\ in_flight' = [in_flight EXCEPT ![w] =
                    <<[frame |-> frame, fault |-> fault, call |-> r,
                       tracking |-> TrackResult(current_boxes, fp_resolution[1])]>>]
             /\ UNCHANGED <<tracker_vars, pipeline_vars>>
        ELSE /\ process_frame(frame, fault, current_boxes)
             /\ UNCHANGED in_flight

\* the writes of track_movement and the rest of process_frame
finish_process_frame(w) ==
    /\ in_flight[w] # NotInFlight
    /\ \E c \in {in_flight[w][1]} :
        /\ commit_tracking(c.tracking)
        /\ fp_last_processed_time' = IF c.fault \in {"none", "overlay"}
                                     THEN c.call.last_processed_time
                                     ELSE fp_last_processed_time
        /\ pf_call' = [frame |-> c.frame, fault |-> c.fault, returned |-> c.call.returned,
                       raised |-> c.call.raised, failed |-> c.call.failed,
                       drawn |-> c.call.drawn]
    /\ in_flight' = [in_flight EXCEPT ![w] = NotInFlight]

\* the scene while the service is followed: an empty room
SceneBoxes == {<<>>}

----------------------------------------------------------------------------
(* VideoService: the capture thread *)

\* durations in 1/128 s: 0.5 s, 5.0 s, 3.0 s and the 1.0 s of join(timeout=1.0)
initial_backoff == 64
max_backoff == 640
retry_cycle_sleep == 384
join_timeout == 128

Min(a, b) == IF a <= b THEN a ELSE b

\* faulty variant: the backoff grows without the cap
next_backoff_uncapped(backoff) == (backoff * 3) \div 2

\* min(reconnect_backoff * 1.5, max_backoff)
next_backoff(backoff) == Min((backoff * 3) \div 2, max_backoff)

\* max(0, 1.0 / self.frame_rate - process_time), at its longest
frame_sleep == 128 \div vs_frame_rate

\* os.path.join(current_app.static_folder, 'videos', 'demo.mp4')
demo_path == DemoPath

\* VideoService.start_capture_thread
start_capture_thread ==
    IF is_running
    THEN /\ vs_returned' = "start refused"
         /\ UNCHANGED <<is_running, vs_thread, join_pending, threads_started, loop_vars>>
    ELSE /\ threads_started < Cardinality(Threads)
         /\ is_running' = TRUE
         /\ threads_started' = threads_started + 1
         /\ vs_thread' = threads_started + 1
         /\ loop_pc' = [loop_pc EXCEPT ![threads_started + 1] = "top"]
         /\ reconnect_backoff' = [reconnect_backoff EXCEPT ![threads_started + 1] = initial_backoff]
         /\ vs_returned' = "started"
         /\ UNCHANGED <<join_pending, loop_sleep, loop_last>>

\* faulty variant: the stop joins the thread and leaves the flag as it is
stop_capture_thread_keeping_flag ==
    IF ~is_running
    THEN /\ vs_returned' = "not running"
         /\ UNCHANGED <<is_running, vs_thread, join_pending, threads_started>>
    ELSE /\ join_pending = NoThread
         /\ IF vs_thread # NoThread
            THEN /\ join_pending' = vs_thread
                 /\ UNCHANGED <<vs_thread, vs_returned>>
            ELSE /\ vs_returned' = "stopped"
                 /\ UNCHANGED <<vs_thread, join_pending>>
         /\ UNCHANGED <<is_running, threads_started>>

\* VideoService.stop_capture_thread up to the join
stop_capture_thread ==
    IF ~is_running
    THEN /\ vs_returned' = "not running"
         /\ UNCHANGED <<is_running, vs_thread, join_pending, threads_started>>
    ELSE /\ join_pending = NoThread
         /\ is_running' = FALSE
         /\ IF vs_thread # NoThread
            THEN /\ join_pending' = vs_thread
                 /\ UNCHANGED <<vs_thread, vs_returned>>
            ELSE /\ vs_returned' = "stopped"
                 /\ UNCHANGED <<vs_thread, join_pending>>
         /\ UNCHANGED threads_started

\* the thread does not come back to its while test within the second join waits
outlasts_join(t) == loop_pc[t] = "asleep" /\ loop_sleep[t] > join_timeout

\* self.thread.join(timeout=1.0) returns, the thread finished or not; self.thread = None
join_returns ==
    /\ join_pending # NoThread
    /\ loop_pc[join_pending] = "finished" \/ outlasts_join(join_pending)
    /\ join_pending' = NoThread
    /\ vs_thread' = NoThread
    /\ vs_returned' = "stopped"
    /\ UNCHANGED <<is_running, threads_started>>

\* the calls come one after the other: none while a stop waits in its join
StartCaptureThread ==
    /\ join_pending = NoThread
    /\ start_capture_thread
    /\ UNCHANGED <<tracker_vars, health_vars, settings_vars, capture_vars, pipeline_vars,
                   frame_vars, consumer_vars, api_vars>>

StopCaptureThread ==
    /\ stop_capture_thread
    /\ UNCHANGED <<tracker_vars, health_vars, settings_vars, capture_vars, pipeline_vars,
                   loop_vars, frame_vars, consumer_vars, api_vars>>

JoinReturns ==
    /\ join_returns
    /\ UNCHANGED <<tracker_vars, health_vars, settings_vars, capture_vars, pipeline_vars,
                   loop_vars, frame_vars, consumer_vars, api_vars>>

----------------------------------------------------------------------------
(* VideoService._capture_frames *)

\* what cv2 may do when the capture is opened again: a source that delivers
\* frames opens; camera 0 is only tried when the source did not open
SourceOpens == IF source_ok THEN {TRUE} ELSE BOOLEAN
DefaultOpens(opened) == IF opened THEN {FALSE} ELSE BOOLEAN

\* VideoCaptureManager.reopen: the manager it leaves
reopened_manager(opened, default_opened) ==
    initialize_capture(cm_video_path, current_capture_manager.flags, opened, default_opened)

\* VideoCaptureManager.reopen, and self.cap = self.capture_manager.cap
reopen(opened, default_opened) ==
    /\ install_capture_manager(reopened_manager(opened, default_opened))
    /\ open_at_once' = handles_after_reopen(reopened_manager(opened, default_opened))
    /\ UNCHANGED <<vs_is_camera, vs_is_rtsp, vs_is_file>>
    /\ UNCHANGED <<files, managers_created, monitors_created>>

\* self.health_monitor with the counts kept about it
monitor_state ==
    [last_successful_read |-> last_successful_read,
     consecutive_failures |-> consecutive_failures,
     connection_healthy |-> connection_healthy,
     fail_streak |-> fail_streak,
     ever_succeeded |-> ever_succeeded]

\* update_on_failure, update_on_success and consecutive_failures = 0 on such a value
after_failure(h) ==
    [h EXCEPT !.consecutive_failures = @ + 1, !.connection_healthy = FALSE,
              !.fail_streak = @ + 1]

after_success(h) ==
    [h EXCEPT !.consecutive_failures = 0, !.connection_healthy = TRUE,
              !.last_successful_read = now, !.fail_streak = 0, !.ever_succeeded = TRUE]

after_reset(h) == [h EXCEPT !.consecutive_failures = 0]

install_monitor_state(h) ==
    /\ h.fail_streak <= MaxFailures
    /\ last_successful_read' = h.last_successful_read
    /\ consecutive_failures' = h.consecutive_failures
    /\ connection_healthy' = h.connection_healthy
    /\ fail_streak' = h.fail_streak
    /\ ever_succeeded' = h.ever_succeeded
    /\ UNCHANGED now

\* cv2.resize(frame, self.resolution) raises on an empty size
resize_fails == vs_resolution[1] <= 0 \/ vs_resolution[2] <= 0

\* one pass of thread t through the body of while self.is_running, up to its
\* sleep or to the tracker; opened, default_opened: what cv2 does if the capture
\* is opened again, app_context: current_app finds an application context
capture_iteration(t, opened, default_opened, app_context) ==
    LET backoff == reconnect_backoff[t]
        stay == [branch |-> "exit", pc |-> "finished", sleep |-> 0, backoff |-> backoff,
                 monitor |-> monitor_state, capture_manager |-> current_capture_manager,
                 video_path |-> vs_video_path, constructed |-> FALSE,
                 current_frame |-> current_frame]
        asleep == [stay EXCEPT !.pc = "asleep"]
        reopened == reopened_manager(opened, default_opened)
    IN  IF ~is_running
        THEN stay
        ELSE IF should_reconnect
        THEN IF ~exceeded_max_attempts
             THEN [asleep EXCEPT !.branch = "reconnect", !.capture_manager = reopened,
                                 !.sleep = backoff, !.backoff = next_backoff(backoff)]
             ELSE IF ~app_context
             THEN [asleep EXCEPT !.branch = "reconnect error", !.capture_manager = reopened,
                                 !.monitor = after_failure(monitor_state),
                                 !.sleep = backoff + next_backoff(backoff),
                                 !.backoff = next_backoff(backoff)]
             ELSE IF exists(demo_path) /\ vs_video_path # demo_path
             THEN [asleep EXCEPT !.branch = "switched", !.video_path = demo_path,
                                 !.capture_manager =
                                    new_capture_manager(demo_path, opened, default_opened),
                                 !.constructed = TRUE,
                                 !.monitor = after_reset(monitor_state),
                                 !.sleep = backoff, !.backoff = next_backoff(backoff)]
             ELSE [asleep EXCEPT !.branch = "retry cycle", !.capture_manager = reopened,
                                 !.monitor = after_reset(monitor_state),
                                 !.sleep = backoff + retry_cycle_sleep,
                                 !.backoff = next_backoff(backoff)]
        ELSE IF cap = "closed"
        THEN [asleep EXCEPT !.branch = "reopen", !.capture_manager = reopened,
                            !.monitor = after_failure(monitor_state), !.sleep = backoff]
        ELSE IF ~source_ok
        THEN [asleep EXCEPT !.branch = "read failed", !.capture_manager = reopened,
                            !.monitor = after_failure(monitor_state), !.sleep = backoff]
        ELSE IF resize_fails
        THEN [asleep EXCEPT !.branch = "resize error",
                            !.monitor = after_failure(after_success(monitor_state)),
                            !.sleep = initial_backoff, !.backoff = initial_backoff]
        ELSE [asleep EXCEPT !.branch = "read", !.monitor = after_success(monitor_state),
                            !.backoff = initial_backoff, !.current_frame = "raw",
                            !.pc = IF process_frame_result("image", "none").tracked
                                   THEN "tracking" ELSE "asleep",
                            !.sleep = IF process_frame_result("image", "none").tracked
                                      THEN 0 ELSE frame_sleep]

\* the passes that call capture_manager.reopen() and keep the manager
ReopeningBranches == {"reconnect", "reconnect error", "retry cycle", "reopen", "read failed"}

\* what the environment may answer in a pass
AppContexts == IF should_reconnect /\ exceeded_max_attempts THEN BOOLEAN ELSE {TRUE}

\* VideoService._capture_frames: the while test and one pass of the body; a
\* frame read is cached and a copy of it handed to process_frame
LoopIterates(t) ==
    /\ loop_pc[t] = "top"
    /\ \E opened \in SourceOpens, app_context \in AppContexts :
       \E default_opened \in DefaultOpens(opened) :
       \E r \in {capture_iteration(t, opened, default_opened, app_context)} :
            /\ r.constructed => managers_created < MaxManagers
            /\ loop_pc' = [loop_pc EXCEPT ![t] = r.pc]
            /\ loop_sleep' = [loop_sleep EXCEPT ![t] = r.sleep]
            /\ loop_last' = [loop_last EXCEPT ![t] = r.branch]
            /\ reconnect_backoff' = [reconnect_backoff EXCEPT ![t] = r.backoff]
            /\ install_monitor_state(r.monitor)
            /\ install_capture_manager(r.capture_manager)
            /\ link_capture_manager(r.capture_manager, r.constructed)
            /\ managers_created' = IF r.constructed THEN managers_created + 1
                                   ELSE managers_created
            /\ IF r.constructed
               THEN \E old_opened \in SourceOpens :
                    \E old_default_opened \in DefaultOpens(old_opened) :
                        open_at_once' = handles_after_construction(
                            reopened_manager(old_opened, old_default_opened).cap,
                            r.capture_manager)
               ELSE IF r.branch \in ReopeningBranches
               THEN open_at_once' = handles_after_reopen(r.capture_manager)
               ELSE UNCHANGED open_at_once
            /\ vs_video_path' = r.video_path
            /\ current_frame' = r.current_frame
            /\ consumer_frame' = IF r.branch = "read" /\ consumer_frame = "cached"
                                 THEN "replaced" ELSE consumer_frame
            /\ IF r.branch = "read"
               THEN \E current_boxes \in SceneBoxes :
                        begin_process_frame(t, "image", "none", current_boxes)
               ELSE UNCHANGED <<tracker_vars, pipeline_vars, in_flight>>
    /\ UNCHANGED <<files, monitors_created, source_ok, consumer_pc, raw_served,
                   stream_call, api_vars>>
    /\ UNCHANGED <<vs_frame_rate, vs_resolution, fp_frame_rate, fp_resolution, thread_vars>>

\* the rest of process_frame, the emit, and the sleep that keeps the frame rate
LoopFinishesFrame(t) ==
    /\ loop_pc[t] = "tracking"
    /\ finish_process_frame(t)
    /\ loop_pc' = [loop_pc EXCEPT ![t] = "asleep"]
    /\ loop_sleep' = [loop_sleep EXCEPT ![t] = frame_sleep]
    /\ UNCHANGED <<reconnect_backoff, loop_last>>
    /\ UNCHANGED <<current_frame, source_ok>>
    /\ UNCHANGED <<health_vars, settings_vars, capture_vars, thread_vars, consumer_vars, api_vars>>

\* time.sleep returns
LoopWakes(t) ==
    /\ loop_pc[t] = "asleep"
    /\ loop_pc' = [loop_pc EXCEPT ![t] = "top"]
    /\ loop_sleep' = [loop_sleep EXCEPT ![t] = 0]
    /\ UNCHANGED <<reconnect_backoff, loop_last>>
    /\ UNCHANGED <<tracker_vars, health_vars, settings_vars, capture_vars, pipeline_vars,
                   thread_vars, frame_vars, consumer_vars, api_vars>>

\* one step of the capture thread t
LoopStep(t) ==
    \/ LoopIterates(t)
    \/ LoopFinishesFrame(t)
    \/ LoopWakes(t)

CaptureLoop == \E t \in Threads : LoopStep(t)

\* the source stops delivering frames, or delivers them again
SourceFails ==
    /\ source_ok
    /\ source_ok' = FALSE
    /\ UNCHANGED <<current_frame, in_flight>>
    /\ UNCHANGED <<tracker_vars, health_vars, settings_vars, capture_vars, pipeline_vars,
                   thread_vars, loop_vars, consumer_vars, api_vars>>

SourceRecovers ==
    /\ ~source_ok
    /\ source_ok' = TRUE
    /\ UNCHANGED <<current_frame, in_flight>>
    /\ UNCHANGED <<tracker_vars, health_vars, settings_vars, capture_vars, pipeline_vars,
                   thread_vars, loop_vars, consumer_vars, api_vars>>

\* the demo video is put in place
InstallDemoVideo ==
    /\ demo_path \notin files
    /\ files' = files \cup {demo_path}
    /\ UNCHANGED <<cm_video_path, cm_is_camera, cm_is_rtsp, cm_is_file, cap,
                   vs_is_camera, vs_is_rtsp, vs_is_file,
                   managers_created, monitors_created, open_at_once>>
    /\ UNCHANGED <<tracker_vars, health_vars, settings_vars, pipeline_vars, service_vars>>

----------------------------------------------------------------------------
(* VideoService: the pull consumers *)

\* what the cached array looks like once process_frame has drawn on it
Drawn(call) == IF call.drawn = "timestamp" THEN "timestamped" ELSE "annotated"

\* the test "not health_info['healthy']" followed by should_reconnect()
stream_reconnects ==
    /\ ~health_info(vs_is_camera, vs_is_rtsp, vs_is_file).healthy
    /\ consecutive_failures > 0

\* generate_frames / generate_raw_frames up to get_frame: check_connection_health,
\* and a reopen if the monitor asks for one
stream_checks_health(feed) ==
    /\ consumer_pc = "idle"
    /\ check_health(vs_is_camera, vs_is_rtsp, vs_is_file)
    /\ IF stream_reconnects
       THEN \E opened \in SourceOpens :
            \E default_opened \in DefaultOpens(opened) :
                reopen(opened, default_opened)
       ELSE UNCHANGED capture_vars
    /\ consumer_pc' = feed
    /\ stream_call' = [feed |-> feed, reopened |-> stream_reconnects, read |-> FALSE,
                       checked_running |-> is_running, is_running |-> is_running,
                       source_ok |-> source_ok, got |-> "pending",
                       yielded |-> "pending"]
    /\ UNCHANGED <<consumer_frame, raw_served>>

\* faulty variant: get_frame reads without looking whether the capture is open
get_frame_result_unchecked ==
    IF current_frame # "None"
    THEN [frame |-> "cached", health |-> "untouched", read |-> FALSE]
    ELSE IF ~source_ok
    THEN [frame |-> "None", health |-> "failure", read |-> TRUE]
    ELSE [frame |-> "fresh", health |-> "success", read |-> TRUE]

\* VideoService.get_frame: the frame it returns ("None", "cached" for the
\* cached array itself, "fresh" for a frame it read) and what it does to the monitor
get_frame_result ==
    IF current_frame # "None"
    THEN [frame |-> "cached", health |-> "untouched", read |-> FALSE]
    ELSE IF cap = "closed"
    THEN [frame |-> "None", health |-> "failure", read |-> FALSE]
    ELSE IF ~source_ok
    THEN [frame |-> "None", health |-> "failure", read |-> TRUE]
    ELSE [frame |-> "fresh", health |-> "success", read |-> TRUE]

\* "if self.health_monitor.consecutive_failures > 3" after a pass without a
\* frame, whose get_frame has counted one more failure: the error frame, or the
\* test pattern generate_frames makes for an RTSP source
diagnostic_frame(feed) ==
    IF consecutive_failures + 1 > 3
    THEN IF feed = "feed" /\ vs_is_rtsp THEN "test pattern" ELSE "error frame"
    ELSE "nothing"

\* the pass of the generator goes on from get_frame
after_get_frame(got, yielded) ==
    [stream_call EXCEPT !.read = got.read, !.got = got.frame, !.yielded = yielded,
                        !.is_running = is_running, !.source_ok = source_ok]

\* generate_raw_frames from get_frame on: a frame is encoded as it is and
\* update_on_success follows; without one the failure get_frame counted stays
StreamRawFrame ==
    /\ consumer_pc = "raw feed"
    /\ \E got \in {get_frame_result} :
        /\ IF got.frame = "None" THEN update_on_failure ELSE update_on_success
        /\ raw_served' = IF got.frame = "cached" THEN current_frame
                         ELSE IF got.frame = "fresh" THEN "raw" ELSE "nothing"
        /\ stream_call' = after_get_frame(got, IF got.frame = "None"
                                                THEN diagnostic_frame("raw feed")
                                                ELSE "frame")
    /\ consumer_pc' = "idle"
    /\ UNCHANGED <<consumer_frame, current_frame, source_ok, in_flight>>
    /\ UNCHANGED <<tracker_vars, settings_vars, capture_vars, pipeline_vars,
                   thread_vars, loop_vars, api_vars>>

\* generate_frames from get_jpeg_frame on: get_frame, then process_frame on the
\* very array get_frame returned; a call the cadence gate cuts short has drawn
\* its timestamp and is followed by update_on_success at once
StreamFrame ==
    /\ consumer_pc = "feed"
    /\ \E got \in {get_frame_result} :
        IF got.frame = "None"
        THEN /\ update_on_failure
             /\ consumer_pc' = "idle"
             /\ stream_call' = after_get_frame(got, diagnostic_frame("feed"))
             /\ UNCHANGED <<consumer_frame, current_frame, in_flight>>
             /\ UNCHANGED <<tracker_vars, pipeline_vars>>
        ELSE /\ \E current_boxes \in SceneBoxes :
                    begin_process_frame(Consumer, "image", "none", current_boxes)
             /\ IF process_frame_result("image", "none").tracked
                THEN /\ IF got.health = "success" THEN update_on_success
                        ELSE UNCHANGED health_vars
                     /\ consumer_pc' = "processing"
                     /\ consumer_frame' = got.frame
                     /\ stream_call' = after_get_frame(got, "pending")
                     /\ UNCHANGED current_frame
                ELSE /\ update_on_success
                     /\ consumer_pc' = "idle"
                     /\ stream_call' = after_get_frame(got, "frame")
                     /\ current_frame' = IF got.frame = "cached"
                                         THEN Drawn(process_frame_result("image", "none"))
                                         ELSE current_frame
                     /\ UNCHANGED consumer_frame
    /\ UNCHANGED <<raw_served, source_ok>>
    /\ UNCHANGED <<settings_vars, capture_vars, thread_vars, loop_vars, api_vars>>

\* the rest of that process_frame: the tracker written, the overlay drawn on
\* the array the consumer holds, update_on_success for the frame served
StreamFinishFrame ==
    /\ consumer_pc = "processing"
    /\ finish_process_frame(Consumer)
    /\ update_on_success
    /\ current_frame' = IF consumer_frame = "cached"
                        THEN Drawn(in_flight[Consumer][1].call)
                        ELSE current_frame
    /\ consumer_pc' = "idle"
    /\ consumer_frame' = "None"
    /\ stream_call' = [stream_call EXCEPT !.yielded = "frame"]
    /\ UNCHANGED <<raw_served, source_ok>>
    /\ UNCHANGED <<settings_vars, capture_vars, thread_vars, loop_vars, api_vars>>

\* a client reads on from the video feed, or from the raw feed
FeedChecksHealth ==
    /\ stream_checks_health("feed")
    /\ UNCHANGED <<current_frame, source_ok, in_flight>>
    /\ UNCHANGED <<tracker_vars, settings_vars, pipeline_vars, thread_vars, loop_vars, api_vars>>

RawFeedChecksHealth ==
    /\ stream_checks_health("raw feed")
    /\ UNCHANGED <<current_frame, source_ok, in_flight>>
    /\ UNCHANGED <<tracker_vars, settings_vars, pipeline_vars, thread_vars, loop_vars, api_vars>>

----------------------------------------------------------------------------
(* The settings boundary: POST /api/door-area and POST /camera-settings *)

\* the zones a client may send: a proper one, one with x1 > x2, one with y1 = y2
SubmittedDoors == {<<200, 240, 400, 290>>, <<300, 100, 100, 400>>, <<100, 290, 300, 290>>}

\* a JSON body of /api/door-area; numeric: int() accepts its four coordinates
DoorRequests ==
    [numeric : BOOLEAN, door : SubmittedDoors, inside_direction : {"right", "left"}]

\* a form of /camera-settings; numeric: int() accepts the two parts of the resolution
CameraForms ==
    [numeric : BOOLEAN, camera_url : {Digit0}, frame_rate : {30},
     resolution : {<<640, 480>>, <<0, 0>>}]

Degenerate(door) == door[1] >= door[3] \/ door[2] >= door[4]
BadResolution(resolution) == resolution[1] <= 0 \/ resolution[2] <= 0

\* api.routes.set_door_area: int() on each coordinate, then
\* detection_model.set_door_area and set_inside_direction; any exception gives 400
door_area_route(request) ==
    IF ~request.numeric
    THEN /\ api_call' = [route |-> "door-area", invalid |-> TRUE,
                         success |-> FALSE, status |-> 400]
         /\ UNCHANGED tracker_vars
    ELSE /\ door_area' = request.door
         /\ door_defined' = TRUE
         /\ left_to_right' = 0
         /\ right_to_left' = 0
         /\ previous_centers' = <<>>
         /\ inside_direction' = IF request.inside_direction \in Directions
                                THEN request.inside_direction ELSE inside_direction
         /\ UNCHANGED <<track_id, top_to_bottom, bottom_to_top, issued, issued_since_reset>>
         /\ api_call' = [route |-> "door-area", invalid |-> Degenerate(request.door),
                         success |-> TRUE, status |-> 200]

\* core.routes.camera_settings on a POST: the form parsed, then
\* video_service.update_settings(video_path, frame_rate, resolution)
camera_settings_route(form, opened, default_opened) ==
    IF ~form.numeric
    THEN /\ api_call' = [route |-> "camera-settings", invalid |-> TRUE,
                         success |-> FALSE, status |-> 400]
         /\ UNCHANGED <<health_vars, settings_vars, capture_vars>>
    ELSE /\ update_settings(Some(form.camera_url), Some(form.frame_rate),
                            Some(form.resolution), opened, default_opened)
         /\ api_call' = [route |-> "camera-settings",
                         invalid |-> BadResolution(form.resolution),
                         success |-> TRUE, status |-> 200]

\* the pipeline at work on images with at most one person in view
ProcessImage ==
    /\ \E current_boxes \in BoxesFound("image", "none") :
            process_frame("image", "none", current_boxes)
    /\ UNCHANGED <<health_vars, settings_vars, capture_vars, service_vars>>

PostDoorArea ==
    /\ \E request \in DoorRequests : door_area_route(request)
    /\ UNCHANGED <<health_vars, settings_vars, capture_vars, pipeline_vars,
                   thread_vars, loop_vars, frame_vars, consumer_vars>>

PostCameraSettings ==
    /\ \E form \in CameraForms :
       \E opened \in OpenOutcomes(form.numeric /\ form.camera_url # vs_video_path) :
       \E default_opened \in OpenOutcomes(form.numeric /\ form.camera_url # vs_video_path
                                          /\ ~opened) :
            camera_settings_route(form, opened, default_opened)
    /\ UNCHANGED <<tracker_vars, pipeline_vars,
                   thread_vars, loop_vars, frame_vars, consumer_vars>>

----------------------------------------------------------------------------
(* Specifications *)

TrackerInit ==
    /\ previous_centers = <<>>
    /\ track_id = 0
    /\ left_to_right = 0
    /\ right_to_left = 0
    /\ top_to_bottom = 0
    /\ bottom_to_top = 0
    /\ door_defined = FALSE
    /\ door_area = NoDoor
    /\ inside_direction = "right"
    /\ issued = {}
    /\ issued_since_reset = <<>>

HealthInit ==
    /\ last_successful_read = 0
    /\ consecutive_failures = 0
    /\ connection_healthy = TRUE
    /\ now = 1
    /\ fail_streak = 0
    /\ ever_succeeded = FALSE

\* VideoService.__init__ on camera 0 with the default frame rate and resolution
ServiceInit ==
    /\ files = {}
    /\ vs_video_path = Camera0
    /\ vs_frame_rate = 30
    /\ vs_resolution = <<640, 480>>
    /\ fp_frame_rate = 30
    /\ fp_resolution = <<640, 480>>
    /\ cm_video_path = Camera0
    /\ cm_is_camera = TRUE
    /\ cm_is_rtsp = FALSE
    /\ cm_is_file = FALSE
    /\ vs_is_camera = TRUE
    /\ vs_is_rtsp = FALSE
    /\ vs_is_file = FALSE
    /\ cap = "source"
    /\ managers_created = 0
    /\ open_at_once = 1
    /\ monitors_created = 0
    /\ fp_last_processed_time = 0
    /\ pf_call = [frame |-> "None", fault |-> "none", returned |-> "None",
                  raised |-> FALSE, failed |-> FALSE, drawn |-> "nothing"]
    /\ is_running = FALSE
    /\ vs_thread = NoThread
    /\ join_pending = NoThread
    /\ threads_started = 0
    /\ vs_returned = "nothing yet"
    /\ loop_pc = [t \in Threads |-> "not started"]
    /\ reconnect_backoff = [t \in Threads |-> initial_backoff]
    /\ loop_sleep = [t \in Threads |-> 0]
    /\ loop_last = [t \in Threads |-> "none"]
    /\ current_frame = "None"
    /\ source_ok = TRUE
    /\ in_flight = [w \in Workers |-> NotInFlight]
    /\ consumer_pc = "idle"
    /\ consumer_frame = "None"
    /\ raw_served = "nothing"
    /\ stream_call = [feed |-> "none", reopened |-> FALSE, read |-> FALSE,
                      checked_running |-> FALSE, is_running |-> FALSE,
                      source_ok |-> TRUE, got |-> "pending", yielded |-> "pending"]
    /\ api_call = [route |-> "none", invalid |-> FALSE, success |-> FALSE, status |-> 0]

Init == TrackerInit /\ HealthInit /\ ServiceInit

\* the DetectionModel under the calls of the frame pipeline and of the API
Next ==
    \/ TrackMovement
    \/ SetDoorArea
    \/ SetInsideDirection
    \/ ResetCounters

Spec == Init /\ [][Next]_vars

\* the DetectionModel watching people who stand close to each other
NearbyNext ==
    \/ TrackNearby
    \/ SetDoorArea
    \/ ResetCounters

NearbySpec == Init /\ [][NearbyNext]_vars

\* set_door_area with the zones a client may send, as the door-area route
\* hands them on
SubmitDoorArea ==
    /\ \E door \in SubmittedDoors : set_door_area(door[1], door[2], door[3], door[4])
    /\ UNCHANGED <<health_vars, other_vars>>

\* the same people in front of whatever zone a client has sent
StillNext ==
    \/ TrackNearby
    \/ SubmitDoorArea

StillSpec == Init /\ [][StillNext]_vars

\* the HealthMonitor under the calls of the VideoService
HealthNext ==
    \/ UpdateOnSuccess
    \/ UpdateOnFailure
    \/ CheckHealth
    \/ ResetConsecutiveFailures
    \/ TimePasses

HealthSpec == Init /\ [][HealthNext]_vars

\* the settings page acting on a VideoService whose reads may fail
SettingsNext ==
    \/ UpdateSettings
    \/ CreateFile
    \/ RemoveFile
    \/ UpdateOnFailure

SettingsSpec == Init /\ [][SettingsNext]_vars

\* the FrameProcessor fed with frames as time passes
PipelineNext ==
    \/ ProcessFrame
    \/ PipelineTimePasses

PipelineSpec == Init /\ [][PipelineNext]_vars

\* the capture thread of a running service over a source that may fail and
\* recover, with a client that may read the raw feed
LoopNext ==
    \/ StartCaptureThread
    \/ CaptureLoop
    \/ RawFeedChecksHealth
    \/ StreamRawFrame
    \/ SourceFails
    \/ SourceRecovers
    \/ InstallDemoVideo

LoopSpec == Init /\ [][LoopNext]_vars

\* the same with the scheduling of threads: initialize_services starts the
\* capture thread, and a started thread goes on running, its sleeps returning
LoopFairSpec ==
    /\ LoopSpec
    /\ WF_vars(StartCaptureThread)
    /\ \A t \in Threads : WF_vars(LoopStep(t))

\* the capture thread started and stopped
ThreadNext ==
    \/ StartCaptureThread
    \/ StopCaptureThread
    \/ JoinReturns
    \/ CaptureLoop
    \/ SourceFails
    \/ SourceRecovers

ThreadSpec == Init /\ [][ThreadNext]_vars

\* the same with the scheduling of threads: a started thread goes on running,
\* its sleeps returning, and the join of a stop returns
ThreadFairSpec ==
    /\ ThreadSpec
    /\ WF_vars(JoinReturns)
    /\ \A t \in Threads : WF_vars(LoopStep(t))

\* the capture thread and a client on the feeds, as time passes
StreamNext ==
    \/ StartCaptureThread
    \/ CaptureLoop
    \/ FeedChecksHealth
    \/ StreamFrame
    \/ StreamFinishFrame
    \/ RawFeedChecksHealth
    \/ StreamRawFrame
    \/ PipelineTimePasses

StreamSpec == Init /\ [][StreamNext]_vars

\* the capture thread started and stopped under a client of the raw feed
PullNext ==
    \/ StartCaptureThread
    \/ StopCaptureThread
    \/ JoinReturns
    \/ CaptureLoop
    \/ RawFeedChecksHealth
    \/ StreamRawFrame

PullSpec == Init /\ [][PullNext]_vars

\* the settings boundary in front of a frame pipeline at work
ConfigNext ==
    \/ PostDoorArea
    \/ PostCameraSettings
    \/ ProcessImage
    \/ PipelineTimePasses

ConfigSpec == Init /\ [][ConfigNext]_vars

----------------------------------------------------------------------------
(* Claims *)

AllCountersZero ==
    /\ left_to_right = 0 /\ right_to_left = 0
    /\ top_to_bottom = 0 /\ bottom_to_top = 0

\* C1: a reset_counters step ends with all four directional counters at 0 and
\* no live track, whatever calls came before.
C1_ResetZeroesAllFour ==
    [][reset_counters => (AllCountersZero /\ previous_centers = <<>>)']_vars

IsDoorRedefinition == \E door \in Doors : set_door_area(door[1], door[2], door[3], door[4])

\* C2: a step that is neither reset_counters nor set_door_area lowers none of
\* the four cumulative counters.
C2_CountersMonotone ==
    [][(~reset_counters /\ ~IsDoorRedefinition) =>
            /\ left_to_right' >= left_to_right
            /\ right_to_left' >= right_to_left
            /\ top_to_bottom' >= top_to_bottom
            /\ bottom_to_top' >= bottom_to_top]_vars

\* counters were raised, by door crossings in both axes, and the inside direction was changed
C2_Witness ==
    /\ right_to_left > 0 /\ top_to_bottom > 0
    /\ inside_direction = "up"

StrictlyIncreasing(ids) == \A i, j \in 1..Len(ids) : i < j => ids[i] < ids[j]

\* the ids a track_movement call hands to new tracks are in increasing order
\* and greater than every id in earlier
NewIdsAbove(earlier) ==
    \A current_boxes \in Frames, frame_width \in FrameWidths :
        track_movement(current_boxes, frame_width) =>
            LET created == TrackResult(current_boxes, frame_width).created
            IN  /\ StrictlyIncreasing(created)
                /\ \A k \in SeqRange(created) : \A j \in earlier : j < k

\* C3 (as claimed): over the whole session, reset_counters and set_door_area
\* included, every new track gets an id greater than all ids given before, so
\* no id is given to two new tracks.
C3_IdsNeverReused == [][NewIdsAbove(issued)]_vars

\* C3 (amended): the ids given to new tracks since the last reset_counters are
\* strictly increasing in the order they were given, so none is given twice;
\* set_door_area does not restart the numbering.
C3_IdsIncreaseBetweenResets == StrictlyIncreasing(issued_since_reset)

\* two tracks were numbered since the last reset, the later one after a door redefinition
C3_Witness ==
    /\ door_defined
    /\ issued_since_reset = <<0, 1>>
    /\ Len(previous_centers) = 1 /\ previous_centers[1].id = 1

\* what the read-outs must report for the counters mapped through inside_direction
Clamped(entries, exits) == IF entries >= exits THEN entries - exits ELSE 0

\* C4: in every state the people_in_room of each read-out (get_people_count,
\* GET /counter, the counter_update event) is max(0, entries - exits) and is
\* never negative.
C4_PeopleInRoomClamped ==
    LET entries == get_entry_exit_count[1]
        exits == get_entry_exit_count[2]
    IN  \A people \in {get_people_count, get_counter.people_in_room,
                       emit_counter_update.people_in_room} :
            people >= 0 /\ people = Clamped(entries, exits)

\* more exits than entries have been counted
C4_Witness == get_entry_exit_count[2] > get_entry_exit_count[1]

\* C5: get_entry_exit_count is (left_to_right, right_to_left) for right, the
\* swap for left, (top_to_bottom, bottom_to_top) for down and the swap for up.
C5_EntryExitMapping ==
    /\ inside_direction = "right" => get_entry_exit_count = <<left_to_right, right_to_left>>
    /\ inside_direction = "left" => get_entry_exit_count = <<right_to_left, left_to_right>>
    /\ inside_direction = "down" => get_entry_exit_count = <<top_to_bottom, bottom_to_top>>
    /\ inside_direction = "up" => get_entry_exit_count = <<bottom_to_top, top_to_bottom>>

\* every inside direction is read with counters that tell the four mappings apart
C5_Witness ==
    /\ inside_direction = "up"
    /\ top_to_bottom = 1 /\ bottom_to_top = 0 /\ left_to_right = 0 /\ right_to_left = 1

(* one track, one detection *)

WithinThreshold(a, b) == SqDist(a, b) < tracking_threshold * tracking_threshold

OnlyIncrements(direction) ==
    /\ left_to_right' = left_to_right + (IF direction = "left_to_right" THEN 1 ELSE 0)
    /\ right_to_left' = right_to_left + (IF direction = "right_to_left" THEN 1 ELSE 0)
    /\ top_to_bottom' = top_to_bottom
    /\ bottom_to_top' = bottom_to_top

EntriesExitsGrowBy(de, dx) ==
    /\ get_entry_exit_count'[1] = get_entry_exit_count[1] + de
    /\ get_entry_exit_count'[2] = get_entry_exit_count[2] + dx

ProperVerticalDoor ==
    /\ door_defined
    /\ door_area[1] < door_area[3] /\ door_area[2] < door_area[4]
    /\ is_vertical_door(door_area)

InDoorYRange(p) == door_area[2] <= p[2] /\ p[2] <= door_area[4]

\* at or left of x1 + 0.3*width ; at or right of x2 - 0.3*width
AtOrLeftOfLeftZone(p) == 10 * p[1] <= 10 * door_area[1] + 3 * (door_area[3] - door_area[1])
AtOrRightOfRightZone(p) == 10 * p[1] >= 10 * door_area[3] - 3 * (door_area[3] - door_area[1])

\* the single track at p is followed, in the next call, by the single detection at q
VerticalDoorCrossingCounted(p, q) ==
    (InDoorYRange(p) \/ InDoorYRange(q)) =>
        /\ (AtOrLeftOfLeftZone(p) /\ AtOrRightOfRightZone(q)) =>
                OnlyIncrements("left_to_right") /\ EntriesExitsGrowBy(1, 0)
        /\ (AtOrRightOfRightZone(p) /\ AtOrLeftOfLeftZone(q)) =>
                OnlyIncrements("right_to_left") /\ EntriesExitsGrowBy(0, 1)

\* C6 (as claimed): with a vertical door and inside_direction = right, one
\* track seen at p and then, alone in the next frame, at q, with p in the left
\* zone and q in the right zone and one of them in the door's y-range, raises
\* left_to_right and entries by exactly 1 and nothing else; the reverse
\* movement raises right_to_left and exits.  Door (100,100,300,400) with
\* (110,250) -> (295,250) is an instance.
C6_VerticalCrossingCounted ==
    [][\A box \in Boxes, frame_width \in FrameWidths :
        (/\ ProperVerticalDoor
         /\ inside_direction = "right"
         /\ Len(previous_centers) = 1
         /\ track_movement(<<box>>, frame_width))
        => VerticalDoorCrossingCounted(previous_centers[1].center, get_box_center(box))]_vars

\* C6 (amended): the same, for a detection that the tracker matches to the
\* track, i.e. whose centroid is less than tracking_threshold from p.
C6_MatchedVerticalCrossingCounted ==
    [][\A box \in Boxes, frame_width \in FrameWidths :
        (/\ ProperVerticalDoor
         /\ inside_direction = "right"
         /\ Len(previous_centers) = 1
         /\ WithinThreshold(previous_centers[1].center, get_box_center(box))
         /\ track_movement(<<box>>, frame_width))
        => VerticalDoorCrossingCounted(previous_centers[1].center, get_box_center(box))]_vars

\* track 0 has gone through the 40 wide vertical door from left to right and was counted
C6_Witness ==
    /\ door_area = <<290, 100, 330, 400>>
    /\ inside_direction = "right"
    /\ left_to_right = 1 /\ right_to_left = 0
    /\ track_id = 1
    /\ previous_centers = <<[id |-> 0, center |-> <<325, 280>>]>>

\* C7 (as claimed): without a door, a matched track going from left of
\* frame_width/2 to at or right of frame_width/2 raises left_to_right by
\* exactly 1, the opposite movement raises right_to_left by 1, and no other
\* counter changes.
C7_HalfWidthCrossingCounted ==
    [][\A box \in Boxes, frame_width \in FrameWidths :
        (/\ ~door_defined
         /\ Len(previous_centers) = 1
         /\ WithinThreshold(previous_centers[1].center, get_box_center(box))
         /\ track_movement(<<box>>, frame_width))
        => LET prev_x == previous_centers[1].center[1]
               center_x == get_box_center(box)[1]
           IN  /\ (2 * prev_x < frame_width /\ 2 * center_x >= frame_width)
                        => OnlyIncrements("left_to_right")
               /\ (2 * prev_x >= frame_width /\ 2 * center_x < frame_width)
                        => OnlyIncrements("right_to_left")]_vars

\* C7 (amended): the same with the line at floor(frame_width/2), the pixel
\* column frame_width // 2.
C7_CenterLineCrossingCounted ==
    [][\A box \in Boxes, frame_width \in FrameWidths :
        (/\ ~door_defined
         /\ Len(previous_centers) = 1
         /\ WithinThreshold(previous_centers[1].center, get_box_center(box))
         /\ track_movement(<<box>>, frame_width))
        => LET prev_x == previous_centers[1].center[1]
               center_x == get_box_center(box)[1]
               half == frame_width \div 2
           IN  /\ (prev_x < half /\ center_x >= half) => OnlyIncrements("left_to_right")
               /\ (prev_x >= half /\ center_x < half) => OnlyIncrements("right_to_left")]_vars

\* without a door, track 0 has gone over the centre line and back
C7_Witness ==
    /\ ~door_defined
    /\ left_to_right = 1 /\ right_to_left = 1
    /\ track_id = 1
    /\ previous_centers = <<[id |-> 0, center |-> <<295, 250>>]>>

Orderings(d) ==
    {[i \in 1..Len(d) |-> d[pi[i]]] : pi \in Permutations(1..Len(d))}

\* C8: a detection whose centroid is within tracking_threshold of exactly one
\* live track is given that track's id, in whatever order the tracks are
\* visited, and track_movement hands out no new id for it.
C8_UniqueCandidateMatched ==
    \A c \in Centers : \A i \in 1..Len(previous_centers) :
        (/\ WithinThreshold(c, previous_centers[i].center)
         /\ \A j \in 1..Len(previous_centers) :
                j # i => ~WithinThreshold(c, previous_centers[j].center))
        => /\ \A d \in Orderings(previous_centers) : MatchTrack(d, c) = previous_centers[i].id
           /\ \A frame_width \in FrameWidths :
                LET r == TrackResult(<<BoxAround(c)>>, frame_width)
                IN  /\ r.created = <<>>
                    /\ r.current_centers = <<[id |-> previous_centers[i].id, center |-> c]>>

\* with two tracks alive and far apart, track 1 was followed over the centre line
C8_Witness ==
    /\ ~door_defined
    /\ track_id = 2
    /\ left_to_right = 1
    /\ previous_centers = <<[id |-> 0, center |-> <<110, 250>>],
                            [id |-> 1, center |-> <<325, 280>>]>>

----------------------------------------------------------------------------
(* HealthMonitor claims *)

\* C9: right after the 5th update_on_failure in a row (no update_on_success in
\* between) exceeded_max_attempts is true; right after any update_on_success
\* consecutive_failures is 0, the connection is healthy and
\* exceeded_max_attempts is false.
C9_FailureCeilingAndSuccessReset ==
    [][/\ (update_on_failure /\ fail_streak' = max_reconnect_attempts)
                => exceeded_max_attempts'
       /\ update_on_success
                => (consecutive_failures = 0 /\ connection_healthy
                    /\ ~exceeded_max_attempts)']_vars

\* five failures in a row have been recorded
C9_Witness == fail_streak = max_reconnect_attempts /\ exceeded_max_attempts

IsCheckHealth ==
    \E is_camera \in BOOLEAN, is_rtsp \in BOOLEAN, is_file \in BOOLEAN :
        check_health(is_camera, is_rtsp, is_file)

\* C10: check_health turns a healthy connection unhealthy only when more than
\* 5 s have passed since the last successful read and a success has been
\* recorded; it never marks a monitor unhealthy that has recorded no success.
C10_TimeoutOnlyAfterSuccess ==
    [][IsCheckHealth =>
        /\ (connection_healthy /\ ~connection_healthy')
                => (now - last_successful_read > timeout_threshold /\ ever_succeeded)
        /\ ~ever_succeeded => (connection_healthy' = connection_healthy)]_vars

\* the timeout has fired: unhealthy although no read has failed since the last success
C10_Witness ==
    /\ ever_succeeded
    /\ ~connection_healthy
    /\ fail_streak = 0

----------------------------------------------------------------------------
(* VideoCaptureManager and update_settings claims *)

KindOf(flags) ==
    IF flags = CameraFlags THEN "Device"
    ELSE IF flags = RtspFlags THEN "Network"
    ELSE IF flags = FileFlags THEN "File"
    ELSE "Mixed"

\* an int, or a non-empty string of digits only
IsNumeric(video_path) ==
    \/ video_path.type = "int"
    \/ /\ video_path.type = "str"
       /\ video_path.value # <<>>
       /\ \A i \in 1..Len(video_path.value) : video_path.value[i] \in DigitChars

\* a string that begins with rtsp:// or rtmp://, in either case of the letters
HasStreamScheme(video_path) ==
    /\ video_path.type = "str"
    /\ Len(video_path.value) >= 7
    /\ LET head == [i \in 1..7 |-> LowerChar(video_path.value[i])]
       IN  head \in StreamSchemes

\* the policy: numeric => Device, else stream scheme => Network, else existing
\* path => File, else Device
PolicyKind(video_path) ==
    IF IsNumeric(video_path) THEN "Device"
    ELSE IF HasStreamScheme(video_path) THEN "Network"
    ELSE IF video_path \in files THEN "File"
    ELSE "Device"

\* C11: _determine_source_type classifies every path by the policy (int or
\* all-digit string: Device; rtsp:// or rtmp:// string: Network; existing
\* path: File; anything else: Device; in that order), whatever files exist,
\* and a manager constructed on a source that opens carries that classification.
C11_ClassificationPolicy ==
    /\ [](\A video_path \in VideoPaths :
            KindOf(determine_source_type(video_path)) = PolicyKind(video_path))
    /\ [][(managers_created' # managers_created /\ cap' = "source")
            => KindOf(current_capture_manager.flags') = PolicyKind(vs_video_path')]_vars

\* a manager was constructed on the stream URL while a file of that name
\* existed, the stream opened, and it is a Network source
C11_Witness ==
    /\ managers_created > 0
    /\ vs_video_path = RtspUrl
    /\ RtspUrl \in files
    /\ cap = "source"
    /\ cm_is_rtsp /\ ~cm_is_file /\ ~cm_is_camera

\* the path a manager keeps: a string of digits is the camera of that number
OpenedPath(video_path) ==
    IF IsNumeric(video_path) /\ video_path.type = "str"
    THEN IntPath(ParseInt(video_path.value))
    ELSE video_path

\* C17: update_settings replaces the capture manager and the health monitor
\* if and only if a video_path is given that differs from the current one;
\* a given frame_rate or resolution is always applied to the frame processor;
\* with the source unchanged the capture session and the health state stay
\* as they were.
C17_UpdateSettingsEffects ==
    \A video_path \in OptionOf(SubmittedPaths), frame_rate \in OptionOf(FrameRates),
       resolution \in OptionOf(Resolutions) :
    \A opened \in OpenOutcomes(video_path \notin {None, Some(vs_video_path)}) :
    \A default_opened \in OpenOutcomes(video_path \notin {None, Some(vs_video_path)} /\ ~opened) :
        LET r == update_settings_result(video_path, frame_rate, resolution,
                                        opened, default_opened)
            differs == video_path # None /\ video_path[1] # vs_video_path
        IN  /\ r.restart_capture <=> differs
            /\ differs => /\ r.capture_manager.video_path = OpenedPath(video_path[1])
                          /\ r.health_monitor = new_health_monitor
            /\ ~differs => /\ r.capture_manager = current_capture_manager
                           /\ r.health_monitor = current_health_monitor
                           /\ r.video_path = vs_video_path
            /\ frame_rate # None => r.fp_frame_rate = frame_rate[1]
            /\ resolution # None => r.fp_resolution = resolution[1]

\* one update changed the frame rate of a failing source and kept its health
\* state, another replaced the source
C17_Witness ==
    /\ managers_created = 1
    /\ monitors_created = 1
    /\ vs_video_path = RtspUrl
    /\ fp_frame_rate = 15
    /\ consecutive_failures = 2

----------------------------------------------------------------------------
\* a failure of the detector or of the tracker: the frame cannot be taken by
\* the detector, or detect_people raises before or after track_movement
DetectionFailed(call) ==
    call.failed /\ (call.frame = "malformed" \/ call.fault \in {"detector", "after_tracking"})

\* C12: process_frame never raises past its boundary: whatever the frame
\* (None and malformed included) and wherever the detector or the tracker
\* fails, the call returns; it returns None for a None frame and the input
\* frame otherwise, and after a failure of the detector or the tracker that
\* frame carries no annotation.
C12_ProcessFrameNeverRaises ==
    /\ ~pf_call.raised
    /\ pf_call.returned = (IF pf_call.frame = "None" THEN "None" ELSE "frame")
    /\ DetectionFailed(pf_call) => pf_call.drawn = "nothing"
    /\ \A frame \in FrameInputs, fault \in Faults :
          ~process_frame_result(frame, fault).raised

\* the tracker failed after counting a crossing, and the frame came back bare
C12_Witness ==
    /\ pf_call.frame = "image"
    /\ pf_call.fault = "after_tracking"
    /\ pf_call.failed
    /\ pf_call.returned = "frame"
    /\ left_to_right + right_to_left > 0

----------------------------------------------------------------------------
\* the passes of the loop that go through the health-driven reconnect branch
ReconnectBranches == {"reconnect", "reconnect error", "switched", "retry cycle"}

\* thread t makes a pass through the body of its loop in this step
MakesPass(t) == loop_pc[t] = "top" /\ loop_pc'[t] # "top"

\* the backoff one and a half times as long, or 5.0 s if that is longer
GrownBackoff(before, after) ==
    IF 3 * before >= 2 * 640 THEN after = 640 ELSE 2 * after = 3 * before

BackoffStep(t) ==
    /\ (loop_pc[t] = "not started" /\ loop_pc'[t] = "top") => reconnect_backoff'[t] = 64
    /\ (MakesPass(t) /\ loop_last'[t] \in ReconnectBranches)
            => GrownBackoff(reconnect_backoff[t], reconnect_backoff'[t])
    /\ (MakesPass(t) /\ loop_last'[t] = "read") => reconnect_backoff'[t] = 64

\* C13: the reconnect backoff of the capture loop starts at 0.5 s, becomes
\* min(1.5 * backoff, 5.0 s) in each pass through the reconnect branch, stays
\* between 0.5 s and 5.0 s, and is 0.5 s again after each frame the loop reads
\* (64 and 640 in units of 1/128 s).
C13_BackoffSchedule ==
    /\ [](\A t \in Threads : 64 <= reconnect_backoff[t] /\ reconnect_backoff[t] <= 640)
    /\ [][\A t \in Threads : BackoffStep(t)]_vars

\* the backoff has grown to its cap in the reconnect branch
C13_Witness ==
    /\ loop_last[1] \in ReconnectBranches
    /\ reconnect_backoff[1] = 640
    /\ loop_sleep[1] = 486

----------------------------------------------------------------------------
\* C14: if the reads keep failing while the demo video is in place, the capture
\* loop eventually reaches the ceiling of 5 consecutive failures and goes over
\* to the demo video (stated for the loop on its own, no client on the feeds).
C14_EventualFallback ==
    ([](consumer_pc = "idle") /\ <>[](~source_ok /\ exists(demo_path)))
        => <>(vs_video_path = demo_path)

\* C15: with no client on the feeds, once the source delivers frames again and
\* goes on delivering them, the capture loop eventually reads one, and the
\* monitor is healthy with no consecutive failure from then on.
C15_RecoveryByLoopAlone ==
    ([](consumer_pc = "idle") /\ <>[]source_ok)
        => <>[](connection_healthy /\ consecutive_failures = 0)

----------------------------------------------------------------------------
\* a request with an invalid configuration is answered in this step
InvalidSubmitted == api_call' # api_call /\ api_call'.invalid

\* C16: a request with an invalid configuration (a zone with x1 >= x2 or
\* y1 >= y2, a resolution with an empty side, values that are no numbers) is
\* answered with a failure, and the door zone, the counters, the live tracks
\* and the capture settings stay as they were.
C16_InvalidConfigRejected ==
    [][InvalidSubmitted =>
            /\ ~api_call'.success
            /\ UNCHANGED <<tracker_vars, settings_vars, capture_vars>>]_vars

----------------------------------------------------------------------------
\* the threads inside while self.is_running: at its test, in its body or in one of its sleeps
RunningLoops == {t \in Threads : loop_pc[t] \in {"top", "tracking", "asleep"}}

\* C18: at most one capture loop is executing at any time, whatever the order
\* of the start_capture_thread and stop_capture_thread calls, a stop whose join
\* times out included.
C18_SingleCaptureLoop == Cardinality(RunningLoops) <= 1

----------------------------------------------------------------------------
\* the workers between the reads and the writes of track_movement
InTracker == {w \in Workers : in_flight[w] # NotInFlight}

\* C19: the tracker is serialized: the capture loop's process_frame and a
\* client's process_frame are never both between the reads and the writes of
\* track_movement.
C19_TrackerSerialized == Cardinality(InTracker) <= 1

\* C20: the cached frame is written by the capture loop alone and holds the
\* frame as it was read: no client draws on it, and the raw feed serves it bare.
C20_CachedFrameUntouched ==
    /\ current_frame \in {"None", "raw"}
    /\ raw_served \in {"nothing", "raw"}

\* C21: while the background loop is running, no pass of generate_frames or
\* generate_raw_frames (with the get_frame / get_jpeg_frame it calls) reopens the
\* capture or reads from it
C21_ConsumersLeaveCaptureAlone ==
    /\ stream_call.reopened => ~stream_call.checked_running
    /\ stream_call.read => ~stream_call.is_running

\* C22: every pass of generate_frames / generate_raw_frames made while the
\* source is failing, and so without a fresh frame, yields a diagnostic frame
\* (the error frame or the test pattern)
C22_DiagnosticWhenDegraded ==
    (stream_call.yielded # "pending" /\ ~stream_call.source_ok /\ stream_call.got # "fresh")
        => stream_call.yielded \in {"error frame", "test pattern"}

\* C23: a set_door_area step ends with all four directional counters at 0, no
\* live track, and the zone it was given as the active one
C23_DoorRedefinitionResets ==
    [][\A door \in Doors :
            set_door_area(door[1], door[2], door[3], door[4]) =>
                (/\ AllCountersZero
                 /\ previous_centers = <<>>
                 /\ door_defined /\ door_area = door)']_vars

\* the positions is_crossing_door is tried on
ProbePoints == Centers \cup NearbyCenters

\* the zone test of the door's orientation
OrientationZoneTest(p, q) ==
    IF is_vertical_door(door_area)
    THEN VerticalZoneTest(door_area, p, q)
    ELSE HorizontalZoneTest(door_area, p, q)

InDoorXRange(p) == door_area[1] <= p[1] /\ p[1] <= door_area[3]

\* p and q lie in the door's y-range on different sides of its centre x
AcrossCenterX(p, q) ==
    /\ door_area[2] <= p[2] /\ p[2] <= door_area[4]
    /\ door_area[2] <= q[2] /\ q[2] <= door_area[4]
    /\ (2 * p[1] < door_area[1] + door_area[3]) # (2 * q[1] < door_area[1] + door_area[3])

\* p and q lie in the door's x-range on different sides of its centre y
AcrossCenterY(p, q) ==
    /\ InDoorXRange(p) /\ InDoorXRange(q)
    /\ (2 * p[2] < door_area[2] + door_area[4]) # (2 * q[2] < door_area[2] + door_area[4])

\* the first test satisfied, in the order zone, centre x, centre y
FirstSatisfiedTest(p, q) ==
    IF OrientationZoneTest(p, q).crossed THEN OrientationZoneTest(p, q)
    ELSE IF AcrossCenterX(p, q)
    THEN Crossing(IF p[1] < q[1] THEN "left_to_right" ELSE "right_to_left")
    ELSE IF AcrossCenterY(p, q)
    THEN Crossing(IF p[2] < q[2] THEN "top_to_bottom" ELSE "bottom_to_top")
    ELSE NoCrossing

CounterSum(r) == r.left_to_right + r.right_to_left + r.top_to_bottom + r.bottom_to_top

\* C24: with a door defined, is_crossing_door answers with the first satisfied
\* of the zone test, the centre-x test and the centre-y test, in that order, so
\* with one direction at most; and a frame with one detection raises the four
\* counters by one at most in all.
C24_FirstTestDecides ==
    /\ door_defined =>
            \A p, q \in ProbePoints : is_crossing_door(p, q) = FirstSatisfiedTest(p, q)
    /\ \A c \in ProbePoints :
            CounterSum(TrackResult(<<BoxAround(c)>>, 640))
                <= left_to_right + right_to_left + top_to_bottom + bottom_to_top + 1

\* track 0 has gone from <<190, 240>> to <<225, 265>> inside the door <<100, 100, 300, 400>>,
\* across both of its centre lines, and is counted from left to right only
C24_Witness ==
    /\ door_area = <<100, 100, 300, 400>>
    /\ previous_centers = <<[id |-> 0, center |-> <<225, 265>>]>>
    /\ track_id = 1
    /\ left_to_right = 1 /\ right_to_left = 0
    /\ top_to_bottom = 0 /\ bottom_to_top = 0

\* C25: a get_frame made while no background loop is active (is_running is
\* False, as after stop_capture_thread) reads from the capture: it never
\* returns the frame the loop cached before it was stopped
C25_NoStaleFrameAfterStop ==
    (stream_call.got # "pending" /\ ~stream_call.is_running) => stream_call.got # "cached"

\* the ids of the live tracks
Alive == {previous_centers[i].id : i \in 1..Len(previous_centers)}

\* C26 (as claimed): an id that has been given to a track and is not among the
\* live tracks, its track having found no detection in some frame, is never the
\* id of a live track again, in any later frame of the session.
C26_DroppedIdNeverBack ==
    [][\A k \in issued : k \notin Alive => k \notin Alive']_vars

\* what track_movement would leave in previous_centers for the frame: entries
\* for ids matched among the live tracks or created, the created ones new since
\* the last reset_counters, each at the centre of a detection of the frame
ExactlyTheFrame(current_boxes) ==
    LET r == TrackResult(current_boxes, 640)
        ids == {r.current_centers[i].id : i \in 1..Len(r.current_centers)}
    IN  /\ ids \subseteq Alive \cup SeqRange(r.created)
        /\ SeqRange(r.created) \subseteq ids
        /\ SeqRange(r.created) \cap SeqRange(issued_since_reset) = {}
        /\ \A i \in 1..Len(r.current_centers) :
                \E j \in 1..Len(current_boxes) :
                    r.current_centers[i].center = get_box_center(current_boxes[j])

\* C26 (amended): after every track_movement call previous_centers holds exactly
\* the ids matched or created for the frame's detections, so a track without a
\* match is dropped at once; and an id given out since the last reset_counters
\* that is not among the live tracks is not the id of a live track again before
\* reset_counters restarts the numbering.
C26_DroppedUntilRenumbered ==
    \A current_boxes \in NearbyFrames : ExactlyTheFrame(current_boxes)

\* track 0 found no detection in a frame and is gone, track 1 is alive
C26_Witness ==
    /\ ~door_defined
    /\ issued_since_reset = <<0, 1>>
    /\ previous_centers = <<[id |-> 1, center |-> <<240, 240>>]>>

\* the live tracks whose centre is less than tracking_threshold from c
TracksInReach(c) ==
    {i \in 1..Len(previous_centers) :
        SqDist(c, previous_centers[i].center) < tracking_threshold * tracking_threshold}

\* what track_movement does with a frame holding the one detection centred at c
AloneInFrame(c) == TrackResult(<<BoxAround(c)>>, 640)

\* C27: a detection takes the id of a live track only if that track's centre is
\* strictly less than tracking_threshold away, and then of a nearest one; with
\* every live track at tracking_threshold or further it gets a new id.
C27_StrictThreshold ==
    \A c \in NearbyCenters :
        IF TracksInReach(c) = {}
        THEN /\ AloneInFrame(c).created = <<track_id>>
             /\ AloneInFrame(c).current_centers = <<[id |-> track_id, center |-> c]>>
        ELSE /\ AloneInFrame(c).created = <<>>
             /\ \E i \in TracksInReach(c) :
                    /\ AloneInFrame(c).current_centers =
                            <<[id |-> previous_centers[i].id, center |-> c]>>
                    /\ \A j \in 1..Len(previous_centers) :
                            SqDist(c, previous_centers[i].center)
                                <= SqDist(c, previous_centers[j].center)

\* the track at <<190, 240>> is the only live one, and the detection at
\* <<240, 240>>, exactly tracking_threshold from it, is given the new id 1
C27_Witness ==
    /\ previous_centers = <<[id |-> 0, center |-> <<190, 240>>]>>
    /\ track_id = 1
    /\ SqDist(<<240, 240>>, <<190, 240>>) = tracking_threshold * tracking_threshold
    /\ AloneInFrame(<<240, 240>>).created = <<1>>

\* the live tracks a detection of the frame was matched to and found crossing
\* in the direction
CrossedTracks(current_boxes, direction) ==
    {k \in Alive :
        \E j \in 1..Len(current_boxes) :
            LET center == get_box_center(current_boxes[j])
            IN  /\ MatchTrack(previous_centers, center) = k
                /\ CrossingOf(DictGet(previous_centers, k), center, 640)
                        = Crossing(direction)}

\* C28: in one track_movement call the delta returned for a direction is at
\* most the number of distinct tracks that crossed in that direction in this
\* frame, also when several detections of the frame are within
\* tracking_threshold of the same track.
C28_OneCrossingPerTrack ==
    \A current_boxes \in NearbyFrames :
        \A direction \in DOMAIN TrackResult(current_boxes, 640).movement_count :
            TrackResult(current_boxes, 640).movement_count[direction]
                <= Cardinality(CrossedTracks(current_boxes, direction))

\* C29: a detection that matches no live track gets an id no live track has,
\* and registers no crossing in the call that creates its track: the counters
\* rise by no more than the number of detections matched to a track of the
\* frame before, and not at all for a detection alone in its frame and out of
\* reach of every track.
C29_NewTrackNeverCrosses ==
    /\ \A k \in Alive : k < track_id
    /\ \A current_boxes \in NearbyFrames :
            CounterSum(TrackResult(current_boxes, 640))
                <= left_to_right + right_to_left + top_to_bottom + bottom_to_top
                   + Len(current_boxes) - Len(TrackResult(current_boxes, 640).created)
    /\ \A c \in NearbyCenters :
            TracksInReach(c) = {} =>
                /\ AloneInFrame(c).left_to_right = left_to_right
                /\ AloneInFrame(c).right_to_left = right_to_left
                /\ AloneInFrame(c).top_to_bottom = top_to_bottom
                /\ AloneInFrame(c).bottom_to_top = bottom_to_top

\* a track stands at <<190, 240>>, left of the centre line of the door
\* <<100, 100, 300, 400>>; the detection at <<240, 240>>, right of the line and out
\* of the track's reach, starts track 1 and nothing is counted
C29_Witness ==
    /\ door_area = <<100, 100, 300, 400>>
    /\ previous_centers = <<[id |-> 0, center |-> <<190, 240>>]>>
    /\ is_crossing_door(<<190, 240>>, <<240, 240>>).crossed
    /\ AloneInFrame(<<240, 240>>).created = <<track_id>>
    /\ CounterSum(AloneInFrame(<<240, 240>>)) = 0

\* less than 1/frame_rate has passed since the last processed frame
TooSoon == fp_frame_rate * (now - fp_last_processed_time) < 1

\* a call of process_frame: the one step of the frame pipeline that is not the
\* passing of time
IsProcessFrame == now' = now /\ pf_call'.frame # "None"

\* C30: a process_frame call made less than 1/frame_rate after the last
\* processed frame skips detection: the tracker (previous_centers, track_id,
\* the four counters) and last_processed_time stay as they are, the frame comes
\* back, and the timestamp is all that is drawn on an image.
C30_CadenceGateSkips ==
    [][(TooSoon /\ IsProcessFrame) =>
            /\ UNCHANGED <<previous_centers, track_id, left_to_right, right_to_left,
                           top_to_bottom, bottom_to_top>>
            /\ fp_last_processed_time' = fp_last_processed_time
            /\ pf_call'.returned = "frame" /\ ~pf_call'.failed
            /\ pf_call'.frame = "image" => pf_call'.drawn = "timestamp"]_vars

\* a frame was processed and left a track; the next call came within the same
\* interval and was only timestamped
C30_Witness ==
    /\ pf_call.frame = "image" /\ pf_call.drawn = "timestamp"
    /\ fp_last_processed_time = now
    /\ Len(previous_centers) = 1

----------------------------------------------------------------------------
\* the ceiling is passed and there is nothing to go over to: no demo video, or
\* the service is on it already
NoFallbackLeft ==
    /\ should_reconnect /\ exceeded_max_attempts
    /\ ~(exists(demo_path) /\ vs_video_path # demo_path)

\* C31: while is_running is true the capture loop does not end, whatever fails;
\* a pass that finds the ceiling of attempts passed with no fallback left sets
\* consecutive_failures to 0 and goes on.
C31_RetriesForever ==
    [][\A t \in Threads :
            (MakesPass(t) /\ is_running) =>
                /\ loop_pc'[t] # "finished"
                /\ NoFallbackLeft => consecutive_failures' = 0]_vars

----------------------------------------------------------------------------
\* stop_capture_thread is answered on a service that is not running
StopRefused == ~is_running /\ vs_returned # "not running" /\ vs_returned' = "not running"

\* C32: a stop_capture_thread on a running service leaves is_running false,
\* and unless a start sets the flag again every loop that is running comes to
\* its while test and ends; a stop on a service that is not running is
\* answered False and changes nothing.
C32_StopEndsLoop ==
    /\ [](join_pending # NoThread \/ vs_returned = "stopped" => ~is_running)
    /\ \A t \in Threads :
            (~is_running /\ t \in RunningLoops) ~> (is_running \/ loop_pc[t] = "finished")
    /\ [][StopRefused =>
            UNCHANGED <<tracker_vars, health_vars, settings_vars, capture_vars,
                        pipeline_vars, is_running, vs_thread, join_pending,
                        threads_started, loop_vars, frame_vars, consumer_vars,
                        api_vars>>]_vars

\* the service was stopped while its loop ran, and the loop has ended
C32_Witness ==
    /\ vs_returned = "stopped" /\ ~is_running
    /\ loop_pc[1] = "finished"
    /\ loop_last[1] = "exit"

----------------------------------------------------------------------------
\* the session no open left: neither the source nor camera 0 could be opened
Degraded == cap = "closed"

\* one more failure is on the monitor after this step
FailureRecorded ==
    /\ consecutive_failures' = consecutive_failures + 1
    /\ ~connection_healthy'

\* thread t comes to the read of its pass in this step
LoopAttemptsRead(t) == MakesPass(t) /\ is_running /\ ~should_reconnect

\* a get_frame of the raw feed that has no cached frame to hand out
FeedAttemptsRead == consumer_pc = "raw feed" /\ consumer_pc' = "idle" /\ current_frame = "None"

\* C33: a capture that could not be opened, on the source or on camera 0, is a
\* session like any other and closed: each attempt to read from it, by the
\* loop or by get_frame, gives no frame and counts a failure on the monitor,
\* and the loop opens the capture again and goes on.
C33_DegradedSessionFailsReads ==
    [][/\ \A t \in Threads :
            (Degraded /\ LoopAttemptsRead(t)) =>
                /\ FailureRecorded
                /\ loop_last'[t] = "reopen" /\ loop_pc'[t] = "asleep"
                /\ current_frame' = current_frame
       /\ (Degraded /\ FeedAttemptsRead) =>
                /\ FailureRecorded
                /\ stream_call'.got = "None" /\ raw_served' = "nothing"]_vars

\* the loop came to a closed capture, counted the failure, and opening it
\* again failed on the source and on camera 0 alike
C33_Witness ==
    /\ loop_last[1] = "reopen"
    /\ Degraded /\ cm_video_path # Camera0
    /\ ~connection_healthy /\ consecutive_failures > 0

----------------------------------------------------------------------------
\* C34: set_inside_direction takes left, right, up and down and nothing else:
\* any other value is answered False and leaves inside_direction as it was; a
\* valid one is answered True and stored, and in both cases the door zone, the
\* four counters, the live tracks and track_id stay as they were.
C34_InsideDirectionValidated ==
    [][\A direction \in DirectionInputs :
            set_inside_direction(direction) =>
                /\ set_inside_direction_returns(direction)
                        <=> direction \in {"left", "right", "up", "down"}
                /\ inside_direction' = IF direction \in {"left", "right", "up", "down"}
                                       THEN direction ELSE inside_direction
                /\ UNCHANGED <<door_defined, door_area, left_to_right, right_to_left,
                               top_to_bottom, bottom_to_top, previous_centers,
                               track_id>>]_vars

\* the inside direction was changed on a tracker with a door, a live track and
\* a crossing counted
C34_Witness ==
    /\ inside_direction = "down"
    /\ door_defined /\ Len(previous_centers) > 0
    /\ left_to_right > 0

----------------------------------------------------------------------------
\* the passes of the loop that come to the capture: a read, a failed read, a
\* capture found closed
ReadBranches == {"read", "read failed", "resize error", "reopen"}

\* C35: a running capture loop comes to the capture again and again: after
\* each pass through the reconnect branch a later pass attempts a read, so the
\* loop does not stay in reopen, sleep, continue for ever.
C35_ReconnectLeadsToRead ==
    \A t \in Threads :
        (is_running /\ loop_last[t] \in ReconnectBranches) ~> (loop_last[t] \in ReadBranches)

----------------------------------------------------------------------------
\* C36: a live track whose detection in the next frame has the very centre it
\* had raises no counter, with no door and with every zone set_door_area has
\* taken, those given with x1 > x2 or y1 >= y2 included.
C36_StationaryNeverCounts ==
    \A i \in 1..Len(previous_centers), frame_width \in WidthsRead :
        CounterSum(TrackResult(<<BoxAround(previous_centers[i].center)>>, frame_width))
            = left_to_right + right_to_left + top_to_bottom + bottom_to_top

----------------------------------------------------------------------------
\* a pass of a feed ends in this step without a read of the capture in it
PassWithoutRead == consumer_pc # "idle" /\ consumer_pc' = "idle" /\ ~stream_call'.read

\* the monitor is set healthy, or its failures are cleared, in this step
MarkedHealthy ==
    \/ ~connection_healthy /\ connection_healthy'
    \/ consecutive_failures > 0 /\ consecutive_failures' = 0

\* C37: the monitor follows the reads of the capture: a pass of a feed that
\* read nothing, the cached frame being handed out, neither sets the
\* connection healthy nor clears consecutive_failures.
C37_HealthFromReadsOnly == [][PassWithoutRead => ~MarkedHealthy]_vars

----------------------------------------------------------------------------
\* how many of three flags are set
FlagsSet(is_camera, is_rtsp, is_file) ==
    (IF is_camera THEN 1 ELSE 0) + (IF is_rtsp THEN 1 ELSE 0) + (IF is_file THEN 1 ELSE 0)

----------------------------------------------------------------------------
\* C39: no more than one capture handle is open at a time: a capture that is
\* opened in place of another (reopen, update_settings with a new source, the
\* switch to the demo video) finds the one before released.
C39_OneHandleOpen == open_at_once <= 1

----------------------------------------------------------------------------
\* the entry of a returned movement_count for a direction, 0 if it has none
DeltaOf(movement_count, direction) ==
    IF direction \in DOMAIN movement_count THEN movement_count[direction] ELSE 0

\* the call that ends in r raised each counter by its entry of the delta it
\* returns, and the delta counts no more crossings than the frame has detections
DeltaAccounts(r, current_boxes) ==
    /\ r.left_to_right - left_to_right = DeltaOf(r.movement_count, "left_to_right")
    /\ r.right_to_left - right_to_left = DeltaOf(r.movement_count, "right_to_left")
    /\ r.top_to_bottom - top_to_bottom = DeltaOf(r.movement_count, "top_to_bottom")
    /\ r.bottom_to_top - bottom_to_top = DeltaOf(r.movement_count, "bottom_to_top")
    /\ DeltaOf(r.movement_count, "left_to_right") + DeltaOf(r.movement_count, "right_to_left")
        + DeltaOf(r.movement_count, "top_to_bottom") + DeltaOf(r.movement_count, "bottom_to_top")
            <= Len(current_boxes)

\* C40: a track_movement call raises each cumulative counter by exactly the
\* entry of that direction in the delta it returns (0 for a direction the delta
\* does not have), and the entries of the delta add up to no more than the
\* number of detections in the frame.
C40_DeltaMatchesCounters ==
    \A current_boxes \in NearbyFrames, frame_width \in WidthsRead :
        DeltaAccounts(TrackResult(current_boxes, frame_width), current_boxes)

\* crossings have been counted, and the frame with the one person back left of
\* the door's centre line is answered with a delta of one right_to_left
C40_Witness ==
    /\ door_defined /\ left_to_right > 0
    /\ \E c \in NearbyCenters :
            /\ AloneInFrame(c).movement_count["right_to_left"] = 1
            /\ AloneInFrame(c).right_to_left = right_to_left + 1

====
